---- MODULE Spec2Model ----
(***************************************************************************)
(* The reactive UI state machine of lazystack (package ui): the Model      *)
(* struct, Model.Init, Model.Update and performConfirmedAction, together   *)
(* with the load tasks they dispatch and the port-forward processes of     *)
(* the k8s Manager.                                                        *)
(*                                                                         *)
(* One step of the model is one call of Model.Update (a key press, a tick, *)
(* a resize or the result of a load), or the run of one dispatched load    *)
(* task in its goroutine.                                                  *)
(*                                                                         *)
(* The list panes are bubbles list.Model values whose code is not part of  *)
(* the repository: ListSetItems and ListNavigate follow the List Pane      *)
(* contract (cursor reset on replacement, clamped cursor movement), which  *)
(* names no command returned by a list pane (ListUpdateCmds).              *)
(***************************************************************************)
EXTENDS Integers, Sequences, FiniteSets, TLC

\* ------------------------------------------------------------------ bounds
\* Load tasks and load results in flight at the same time.
MaxInFlight == 4
\* Port-forward processes started over a run.
MaxProcs == 2
\* Outstanding timers the model follows (the code keeps exactly one).
MaxTicks == 2

\* --------------------------------------------------------------- constants
NamespacesCategory == 0
DeploymentsCategory == 1
PodsCategory == 2
ServicesCategory == 3

LogsTab == 0
StatsTab == 1
EnvTab == 2
ConfigTab == 3
TopTab == 4
ExecTab == 5

\* ------------------------------------------------- the cluster (the inputs)
\* What the backend reports, per namespace.  Item records have one shape for
\* every kind; replicas is meaningful for deployments only.
Item(n, r) == [name |-> n, replicas |-> r]

BackendNamespaces == <<Item("app", 0), Item("default", 0)>>

BackendDeployments(ns) ==
    IF ns = "default" THEN <<Item("web", 1), Item("api", 0)>>
    ELSE <<Item("api", 2)>>

BackendPods(ns) ==
    IF ns = "default" THEN <<Item("web", 0), Item("db", 0)>>
    ELSE <<Item("web", 0)>>

\* The number of lines of the log the backend returns for a pod.
LogLines == 1

BackendServices(ns) ==
    IF ns = "default" THEN <<Item("web", 0)>>
    ELSE <<>>

\* Terminal sizes delivered by resize events.
Sizes == {<<80, 24>>, <<40, 10>>, <<10, 24>>, <<5, 5>>}

\* Key presses, by tea.KeyMsg.String().  "z" stands for any unbound key.
Keys ==
    {"y", "Y", "n", "N", "esc", "q", "ctrl+c", "?", "tab", "shift+tab",
     "1", "2", "3", "4", "l", "s", "e", "c", "t", "x", "r", "enter", "d",
     "+", "=", "-", "_", "p", "P", "up", "down", "j", "k", "z"}

\* ---------------------------------------------------------------- state
VARIABLES
    \* Model (the struct)
    width, height, ready,
    activeCategory,
    namespacesList, deploymentsList, podsList, servicesList,
    selectedResource, selectedResourceType,
    activeTab,
    logsViewport, statsViewport, envViewport, configViewport,
    k8sUp,               \* m.k8sManager != nil
    currentNamespace,
    currentMetrics, currentEnvVars, currentYAML,
    activePortForwards,  \* map entries [key |-> <<podName, localPort>>, pf |-> process]
    statusMessage,
    showConfirmDialog, confirmAction, confirmResource, confirmReplicas,
    showHelp,
    \* k8s.Manager and the processes it started
    mgrNamespace,        \* Manager.namespace
    procs,               \* kubectl port-forward processes: "running" | "killed"
    \* the bubbletea runtime
    tasks,               \* dispatched load commands that have not run yet
    msgs,                \* load results not yet handed to Update
    pendingTicks,        \* scheduled timers plus tick events not yet processed
    quit,                \* tea.Quit was returned
    panicked,            \* a nil Manager was dereferenced
    \* what the last step was and did
    lastEvent,           \* the event the last step processed
    lastCmds,            \* the commands Update returned in the last step
    lastCalls,           \* the backend calls made in the last step
    \* LogViewer (internal/ui/logviewer.go), a component of its own
    logViewer,           \* content, autoScroll and the viewport
    \* the environment of the run
    input                \* what the user, the terminal and the backend do

geomVars == <<width, height, ready>>
listVars == <<namespacesList, deploymentsList, podsList, servicesList>>
selVars == <<selectedResource, selectedResourceType>>
viewVars == <<logsViewport, statsViewport, envViewport, configViewport>>
dataVars == <<currentMetrics, currentEnvVars, currentYAML>>
dialogVars == <<showConfirmDialog, confirmAction, confirmResource, confirmReplicas>>

\* The Model struct together with what its pointers reach.
appState ==
    <<geomVars, activeCategory, listVars, selVars, activeTab, viewVars,
      k8sUp, currentNamespace, dataVars, activePortForwards, statusMessage,
      dialogVars, showHelp, mgrNamespace, procs>>

runtimeVars == <<tasks, msgs, pendingTicks, quit, panicked>>
ghostVars == <<lastEvent, lastCmds, lastCalls, input>>

vars == <<appState, runtimeVars, ghostVars, logViewer>>

\* ---------------------------------------------------------------- values
Range(s) == {s[i] : i \in 1..Len(s)}

\* A status line: text with its formatted arguments.
Status(text, arg, n) == [text |-> text, arg |-> arg, n |-> n]

\* A command returned by Update.  Loads carry what their closure captured:
\* the pod name argument (type "pod"), or the copy of selectedResource/Type.
Cmd(kind, name, type) == [kind |-> kind, name |-> name, type |-> type]
TickCmd == Cmd("tick", "", "")
QuitCmd == Cmd("quit", "", "")
LoadKinds ==
    {"loadNamespaces", "loadDeployments", "loadPods", "loadServices",
     "loadPodLogs", "loadPodMetrics", "loadPodEnvVars", "loadResourceYAML"}

\* A result message.  err = "" is success; ns is the namespace the backend
\* call used; name/type say which resource the load was dispatched for.
Msg(kind, err, ns, name, type) ==
    [kind |-> kind, err |-> err, ns |-> ns, name |-> name, type |-> type]

Event(type, key, msg) == [type |-> type, key |-> key, msg |-> msg]
NoMsg == Msg("", "", "", "", "")

\* A backend call made inside Update.
Call(op, name, n) == [op |-> op, name |-> name, n |-> n]

\* ------------------------------------------------------ the logs viewport
\* viewport.Model of the Logs tab: its content and its scroll offset (the
\* index of the first line shown).  The offsets of the other three viewports
\* are not followed.
Viewport(content, yOffset) == [content |-> content, yOffset |-> yOffset]
NewViewport == Viewport(<<>>, 0)

\* The height the viewports were created with: zero until the first resize.
ViewportHeight == IF ready THEN height - 12 ELSE 0

\* The number of lines of a content: a log, or a one-line text.
ContentLines(content) ==
    IF content = <<>> THEN 0
    ELSE IF content[1] = "logs" THEN LogLines ELSE 1

\* The largest scroll offset: the bottom.
MaxYOffset(content) ==
    IF ContentLines(content) - ViewportHeight > 0
    THEN ContentLines(content) - ViewportHeight ELSE 0

ViewportGotoBottom(v) == [v EXCEPT !.yOffset = MaxYOffset(v.content)]

\* SetContent keeps the offset unless it points past the new last line.
ViewportSetContent(v, content) ==
    IF v.yOffset > ContentLines(content) - 1
    THEN ViewportGotoBottom(Viewport(content, v.yOffset))
    ELSE Viewport(content, v.yOffset)

\* viewport.Model.Update for a key: one line up or down, within the content.
ViewportUpdate(v, key) ==
    IF key \in {"up", "k"}
    THEN [v EXCEPT !.yOffset = IF v.yOffset > 0 THEN v.yOffset - 1 ELSE 0]
    ELSE IF key \in {"down", "j"} /\ v.yOffset < MaxYOffset(v.content)
    THEN [v EXCEPT !.yOffset = v.yOffset + 1]
    ELSE v

\* ---------------------------------------------------------- the list pane
EmptyList == [items |-> <<>>, cursor |-> 0]

\* list.Model.SelectedItem: the item under the cursor, nil for an empty list.
HasSelected(l) == l.cursor < Len(l.items)
SelectedItem(l) == l.items[l.cursor + 1]

\* A faulty variant: the cursor survives the replacement of the items.
ListSetItemsKeepCursor(l, items) == [items |-> items, cursor |-> l.cursor]

\* list.Model.SetItems, as Update uses it at every successful list result.
ListSetItems(l, items) == [items |-> items, cursor |-> 0]

\* list.Model.Update on a key: up/k and down/j move the cursor, clamped.
ListNavigate(l, key) ==
    IF key \in {"up", "k"} THEN
        [l EXCEPT !.cursor = IF l.cursor > 0 THEN l.cursor - 1 ELSE 0]
    ELSE IF key \in {"down", "j"} THEN
        [l EXCEPT !.cursor =
            IF l.cursor + 1 < Len(l.items) THEN l.cursor + 1 ELSE l.cursor]
    ELSE l

\* The command list.Model.Update returns for a key: the List Pane contract
\* names none.
ListUpdateCmds(key) == <<>>

\* ------------------------------------------------------------ scenarios
\* The environments the model is explored in.  A scenario fixes whether the
\* backend initialized (k8s.NewManager), which keys the user presses while no
\* overlay is shown (inside an overlay every key of Keys is pressed), whether
\* keys are pressed while loads are still in flight, which backend calls may
\* fail, whether the 5 s timer fires within the run, and
\* which resize events arrive.
Scenario(up, keys, racing, fail, ticks, sizes) ==
    [k8sUp |-> up, keys |-> keys, racing |-> racing, fail |-> fail,
     ticks |-> ticks, sizes |-> sizes]

\* The mutating actions, which may fail.
ActionOps == {"delete-pod", "delete-deployment", "scale-up", "scale-down"}
ListLoadKinds == {"loadNamespaces", "loadDeployments", "loadPods", "loadServices"}

\* Scaling and deleting deployments through the Confirm dialog.
DialogScenario ==
    Scenario(TRUE, {"2", "d", "+", "=", "-", "_", "down", "?"},
             FALSE, ActionOps, FALSE, {})

\* Deleting pods through the Confirm dialog.
DeleteScenario ==
    Scenario(TRUE, {"3", "d", "up", "q"}, FALSE, ActionOps, FALSE, {})

\* Help, port-forwards and quit.
ForwardScenario ==
    Scenario(TRUE, {"3", "p", "P", "q", "ctrl+c", "?", "esc"},
             FALSE, {"StartPortForward"}, FALSE, {})

\* Categories and tabs.
BrowseScenario ==
    Scenario(TRUE, {"tab", "shift+tab", "1", "4", "l", "s", "e", "c", "t", "x"},
             FALSE, {}, FALSE, {})

\* Namespace switches, enter, manual refresh and unbound keys.
NamespaceScenario ==
    Scenario(TRUE, {"enter", "r", "j", "k", "z", "y", "Y", "n", "N"},
             FALSE, {}, FALSE, {})

\* Selection changes racing with the loads they dispatch.
RacingScenario ==
    Scenario(TRUE, {"3", "down"}, TRUE, {}, FALSE, {})

\* Deployments browsed while their YAML loads are still in flight.
StaleScenario ==
    Scenario(TRUE, {"2", "down"}, TRUE, {}, FALSE, {})

\* Selections made in one category and carried into another.
SelectScenario ==
    Scenario(TRUE, {"2", "tab", "up", "down"}, FALSE, {}, FALSE, {})

\* A namespace switch that replaces lists by shorter ones under a moved cursor.
ShrinkScenario ==
    Scenario(TRUE, {"3", "down", "1", "k"}, FALSE, {}, FALSE, {})

\* The timer, with Help, a manual refresh and quit.
TimerScenario ==
    Scenario(TRUE, {"r", "?", "q"}, TRUE, {}, TRUE, {})

\* Resizes.
ResizeScenario ==
    Scenario(TRUE, {"3"}, FALSE, {}, FALSE, Sizes)

\* Failing tab-content loads.
ContentErrorScenario ==
    Scenario(TRUE, {"3"}, FALSE, LoadKinds \ ListLoadKinds, FALSE, {})

\* Failing list loads.
ListErrorScenario ==
    Scenario(TRUE, {"2", "3", "?"}, FALSE, ListLoadKinds, FALSE, {})

\* The backend failed to initialize.
DownScenario ==
    Scenario(FALSE, {"enter", "z", "down", "2", "3", "d", "+", "-", "p", "P",
                     "r", "q", "?"},
             TRUE, {}, FALSE, {})

\* Enter pressed in each of the four categories.
EnterScenario ==
    Scenario(TRUE, {"tab", "4", "enter"}, FALSE, {}, FALSE, {})

Scenarios ==
    {EnterScenario, DialogScenario, DeleteScenario, ForwardScenario, BrowseScenario,
     NamespaceScenario, RacingScenario, StaleScenario, SelectScenario,
     ShrinkScenario, TimerScenario, ResizeScenario, ContentErrorScenario,
     ListErrorScenario, DownScenario}

\* ----------------------------------------------------------------- Init
\* NewModel, then the commands Model.Init returns.
InitCmds ==
    <<Cmd("loadNamespaces", "", ""), Cmd("loadDeployments", "", ""),
      Cmd("loadPods", "", ""), Cmd("loadServices", "", ""), TickCmd>>

LoadsOf(cmds) == {c \in Range(cmds) : c.kind \in LoadKinds}
TicksOf(cmds) == Cardinality({i \in 1..Len(cmds) : cmds[i].kind = "tick"})

\* -------------------------------------------------------- the log viewer
\* A string is a sequence of characters.  len(strings.Split(s, "\n")): the
\* number of lines of s.
LineCount(s) == 1 + Cardinality({i \in 1..Len(s) : s[i] = "\n"})

\* viewport.Model.SetContent with the zero height of a viewport that was
\* never sized: an offset beyond the last line goes to the bottom, which is
\* the line count.
LogViewportSetContent(v, s) ==
    [content |-> s,
     yOffset |-> IF v.yOffset > LineCount(s) - 1 THEN LineCount(s)
                 ELSE v.yOffset]

\* NewLogViewer: no content, auto-scroll on, the viewport not yet created.
NewLogViewer ==
    [content |-> <<>>, autoScroll |-> TRUE,
     viewport |-> [content |-> <<>>, yOffset |-> 0]]

NewModel ==
    /\ width = 0 /\ height = 0 /\ ready = FALSE
    /\ activeCategory = NamespacesCategory
    /\ namespacesList = EmptyList
    /\ deploymentsList = EmptyList
    /\ podsList = EmptyList
    /\ servicesList = EmptyList
    /\ selectedResource = "" /\ selectedResourceType = ""
    /\ activeTab = LogsTab
    /\ logsViewport = NewViewport /\ statsViewport = <<>>
    /\ envViewport = <<>> /\ configViewport = <<>>
    /\ k8sUp = input.k8sUp
    /\ currentNamespace = "default"
    /\ currentMetrics = <<>> /\ currentEnvVars = <<>> /\ currentYAML = <<>>
    /\ activePortForwards = {}
    /\ statusMessage =
         IF k8sUp THEN Status("K8s connected", "", 0)
         ELSE Status("K8s init failed", "", 0)
    /\ showConfirmDialog = FALSE
    /\ confirmAction = "" /\ confirmResource = "" /\ confirmReplicas = 0
    /\ showHelp = FALSE
    /\ mgrNamespace = "default"
    /\ procs = <<>>

Init ==
    /\ input \in Scenarios
    /\ NewModel
    /\ tasks = LoadsOf(InitCmds)
    /\ msgs = {}
    /\ pendingTicks = TicksOf(InitCmds)
    /\ quit = FALSE
    /\ panicked = FALSE
    /\ lastEvent = Event("init", "", NoMsg)
    /\ logViewer = NewLogViewer
    /\ lastCmds = InitCmds
    /\ lastCalls = {}

\* ------------------------------------------------------- the step frame
\* What every call of Update does to the runtime: the returned commands are
\* started (loads become tasks, tea.Tick schedules a timer, tea.Quit ends the
\* program) and a processed result or tick leaves the queue.
Returns(ev, cmds, calls) ==
    /\ lastEvent' = ev
    /\ lastCmds' = cmds
    /\ lastCalls' = calls
    /\ tasks' = tasks \cup LoadsOf(cmds)
    /\ msgs' = IF ev.type = "msg" THEN msgs \ {ev.msg} ELSE msgs
    /\ Cardinality(tasks') + Cardinality(msgs') <= MaxInFlight
    /\ pendingTicks' =
         (IF ev.type = "tick" THEN pendingTicks - 1 ELSE pendingTicks)
         + TicksOf(cmds)
    /\ pendingTicks' <= MaxTicks
    /\ quit' = (quit \/ QuitCmd \in Range(cmds))
    /\ panicked' = panicked
    /\ input' = input
    /\ logViewer' = logViewer

\* A nil *Manager is dereferenced (Manager.SetNamespace writes m.namespace):
\* the program dies inside Update.
Panics(ev) ==
    /\ panicked' = TRUE
    /\ lastEvent' = ev
    /\ lastCmds' = <<>>
    /\ lastCalls' = {}
    /\ UNCHANGED <<appState, tasks, msgs, pendingTicks, quit, input, logViewer>>

Running == ~quit /\ ~panicked

\* The backend's answers to operation op in this run: success, or success
\* and failure.
Answers(op) == IF op \in input.fail THEN BOOLEAN ELSE {TRUE}

\* A key press, by the branch of Update that handles it: "confirm" (the
\* Confirm dialog), "help" (the Help screen) or "normal".
KeyEvent(branch) == Event("key", branch, NoMsg)

\* The three list reloads of a namespace switch and of a tick.
\* A faulty variant: a namespace switch forgets the services reload.
NamespaceLoadsNoServices ==
    <<Cmd("loadDeployments", "", ""), Cmd("loadPods", "", "")>>

NamespaceLoads ==
    <<Cmd("loadDeployments", "", ""), Cmd("loadPods", "", ""),
      Cmd("loadServices", "", "")>>

\* The four loads of a pod selection; loadResourceYAML captures the Model
\* copy, whose selectedResource/Type were just set.
PodLoads(name) ==
    <<Cmd("loadPodLogs", name, "pod"), Cmd("loadPodMetrics", name, "pod"),
      Cmd("loadPodEnvVars", name, "pod"), Cmd("loadResourceYAML", name, "pod")>>

YAMLLoad(name, type) == <<Cmd("loadResourceYAML", name, type)>>

\* Manager.StopPortForward on every registry entry, and what the calls do:
\* Process.Kill on each process named.
StopCalls == {Call("StopPortForward", e.key[1], e.pf) : e \in activePortForwards}
Killed(ps, calls) ==
    [i \in 1..Len(ps) |->
        IF \E c \in calls : c.op = "StopPortForward" /\ c.n = i
        THEN "killed" ELSE ps[i]]

\* ------------------------------------------------- the Confirm dialog keys
\* A faulty variant: "enter" confirms as well.
ConfirmKeysWithEnter == {"y", "Y", "enter"}

ConfirmKeys == {"y", "Y"}
CancelKeys == {"n", "N", "esc", "q"}

\* A faulty variant: the action is applied to the item now under the cursor.
ConfirmedOutcomeFromCursor(ok) ==
    LET l == IF confirmAction = "delete-pod" THEN podsList ELSE deploymentsList
        name == IF HasSelected(l) THEN SelectedItem(l).name ELSE confirmResource
    IN
    IF confirmAction = "delete-pod"
    THEN [status |-> Status("Deleted pod", name, 0),
          cmds |-> <<Cmd("loadPods", "", "")>>,
          calls |-> {Call("DeletePod", name, 0)}]
    ELSE IF confirmAction = "delete-deployment"
    THEN [status |-> Status("Deleted deployment", name, 0),
          cmds |-> <<Cmd("loadDeployments", "", "")>>,
          calls |-> {Call("DeleteDeployment", name, 0)}]
    ELSE [status |-> Status("Scaled", name, confirmReplicas),
          cmds |-> <<Cmd("loadDeployments", "", "")>>,
          calls |-> {Call("ScaleDeployment", name, confirmReplicas)}]

\* A faulty variant: a failed action still dispatches the reload.
ConfirmedOutcomeReloads(ok) ==
    IF confirmAction \notin {"delete-pod", "delete-deployment", "scale-up", "scale-down"}
    THEN [status |-> Status("Unknown action", "", 0), cmds |-> <<>>, calls |-> {}]
    ELSE IF ~k8sUp
    THEN [status |-> Status("Error: k8s manager not initialized", "", 0),
          cmds |-> <<>>, calls |-> {}]
    ELSE IF confirmAction = "delete-pod"
    THEN [status |-> IF ok THEN Status("Deleted pod", confirmResource, 0)
                     ELSE Status("Error deleting pod", "", 0),
          cmds |-> <<Cmd("loadPods", "", "")>>,
          calls |-> {Call("DeletePod", confirmResource, 0)}]
    ELSE IF confirmAction = "delete-deployment"
    THEN [status |-> IF ok THEN Status("Deleted deployment", confirmResource, 0)
                     ELSE Status("Error deleting deployment", "", 0),
          cmds |-> <<Cmd("loadDeployments", "", "")>>,
          calls |-> {Call("DeleteDeployment", confirmResource, 0)}]
    ELSE [status |-> IF ok THEN Status("Scaled", confirmResource, confirmReplicas)
                     ELSE Status("Error scaling", "", 0),
          cmds |-> <<Cmd("loadDeployments", "", "")>>,
          calls |-> {Call("ScaleDeployment", confirmResource, confirmReplicas)}]

\* performConfirmedAction: the status line, the commands and the backend
\* call for the captured action; ok is the backend's answer.
ConfirmedOutcome(ok) ==
    IF confirmAction \notin {"delete-pod", "delete-deployment", "scale-up", "scale-down"}
    THEN [status |-> Status("Unknown action", "", 0), cmds |-> <<>>, calls |-> {}]
    ELSE IF ~k8sUp
    THEN [status |-> Status("Error: k8s manager not initialized", "", 0),
          cmds |-> <<>>, calls |-> {}]
    ELSE IF confirmAction = "delete-pod"
    THEN [status |-> IF ok THEN Status("Deleted pod", confirmResource, 0)
                     ELSE Status("Error deleting pod", "", 0),
          cmds |-> IF ok THEN <<Cmd("loadPods", "", "")>> ELSE <<>>,
          calls |-> {Call("DeletePod", confirmResource, 0)}]
    ELSE IF confirmAction = "delete-deployment"
    THEN [status |-> IF ok THEN Status("Deleted deployment", confirmResource, 0)
                     ELSE Status("Error deleting deployment", "", 0),
          cmds |-> IF ok THEN <<Cmd("loadDeployments", "", "")>> ELSE <<>>,
          calls |-> {Call("DeleteDeployment", confirmResource, 0)}]
    ELSE [status |-> IF ok THEN Status("Scaled", confirmResource, confirmReplicas)
                     ELSE Status("Error scaling", "", 0),
          cmds |-> IF ok THEN <<Cmd("loadDeployments", "", "")>> ELSE <<>>,
          calls |-> {Call("ScaleDeployment", confirmResource, confirmReplicas)}]

performConfirmedAction(ev) ==
    \E ok \in Answers(confirmAction) :
        LET r == ConfirmedOutcome(ok) IN
        /\ statusMessage' = r.status
        /\ Returns(ev, r.cmds, r.calls)

\* Update, case tea.KeyMsg, while showConfirmDialog.
ConfirmDialogKey(k) ==
    /\ Running
    /\ showConfirmDialog
    /\ IF k \in ConfirmKeys THEN
           /\ showConfirmDialog' = FALSE
           /\ performConfirmedAction(KeyEvent("confirm"))
           /\ UNCHANGED <<geomVars, activeCategory, listVars, selVars, activeTab,
                          viewVars, k8sUp, currentNamespace, dataVars,
                          activePortForwards, confirmAction, confirmResource,
                          confirmReplicas, showHelp, mgrNamespace, procs>>
       ELSE IF k \in CancelKeys THEN
           /\ showConfirmDialog' = FALSE
           /\ statusMessage' = Status("Action cancelled", "", 0)
           /\ Returns(KeyEvent("confirm"), <<>>, {})
           /\ UNCHANGED <<geomVars, activeCategory, listVars, selVars, activeTab,
                          viewVars, k8sUp, currentNamespace, dataVars,
                          activePortForwards, confirmAction, confirmResource,
                          confirmReplicas, showHelp, mgrNamespace, procs>>
       ELSE
           /\ Returns(KeyEvent("confirm"), <<>>, {})
           /\ UNCHANGED appState

\* ----------------------------------------------------- the Help screen keys
\* Faulty variants: every key closes Help; "q" no longer closes it.
AnyKeyClosesHelp == Keys
HelpCloseKeysNoQ == {"?", "esc"}

HelpCloseKeys == {"?", "q", "esc"}

\* Update, case tea.KeyMsg, while showHelp.
HelpKey(k) ==
    /\ Running
    /\ ~showConfirmDialog
    /\ showHelp
    /\ showHelp' = (IF k \in HelpCloseKeys THEN FALSE ELSE showHelp)
    /\ Returns(KeyEvent("help"), <<>>, {})
    /\ UNCHANGED <<geomVars, activeCategory, listVars, selVars, activeTab,
                   viewVars, k8sUp, currentNamespace, dataVars,
                   activePortForwards, statusMessage, dialogVars,
                   mgrNamespace, procs>>

\* Faulty variants: the Help check is skipped; the Confirm check is skipped.
NormalModeOverHelp ==
    /\ Running
    /\ ~showConfirmDialog
    /\ input.racing \/ (tasks = {} /\ msgs = {})
NormalModeOverConfirm ==
    /\ Running
    /\ ~showHelp
    /\ input.racing \/ (tasks = {} /\ msgs = {})

\* Neither overlay is shown: the key reaches the main switch of Update.  (A
\* patient scenario presses keys only while no load is in flight.)
NormalMode ==
    /\ Running
    /\ ~showConfirmDialog
    /\ ~showHelp
    /\ input.racing \/ (tasks = {} /\ msgs = {})

\* ------------------------------------------------------- normal-mode keys
\* What no key press changes (viewport scrolling is not followed).
keyFixed == <<geomVars, viewVars, k8sUp, dataVars>>

\* case "ctrl+c", "q": stop every registered port-forward, then tea.Quit.
\* A faulty variant: quit without the cleanup loop.
QuitCallsNone == {}

QuitCalls == IF k8sUp THEN StopCalls ELSE {}

QuitKey(k) ==
    /\ NormalMode
    /\ k \in input.keys
    /\ k \in {"ctrl+c", "q"}
    /\ procs' = Killed(procs, QuitCalls)
    /\ Returns(KeyEvent("normal"), <<QuitCmd>>, QuitCalls)
    /\ UNCHANGED <<keyFixed, activeCategory, listVars, selVars, activeTab,
                   currentNamespace, activePortForwards, statusMessage,
                   dialogVars, showHelp, mgrNamespace>>

\* case "?"
HelpToggleKey(k) ==
    /\ NormalMode
    /\ k \in input.keys
    /\ k = "?"
    /\ showHelp' = ~showHelp
    /\ Returns(KeyEvent("normal"), <<>>, {})
    /\ UNCHANGED <<keyFixed, activeCategory, listVars, selVars, activeTab,
                   currentNamespace, activePortForwards, statusMessage,
                   dialogVars, mgrNamespace, procs>>

\* Go's % on int: the remainder takes the sign of the dividend.
GoMod(a, b) == IF a >= 0 THEN a % b ELSE -((-a) % b)

\* A faulty variant: shift+tab without the + 4.
CycleFromNoBias(c, k) ==
    IF k = "tab" THEN GoMod(c + 1, 4)
    ELSE IF k = "shift+tab" THEN GoMod(c - 1, 4)
    ELSE NamespacesCategory

\* case "tab", "shift+tab", "1": the category reached from category c.
CycleFrom(c, k) ==
    IF k = "tab" THEN GoMod(c + 1, 4)
    ELSE IF k = "shift+tab" THEN GoMod(c - 1 + 4, 4)
    ELSE NamespacesCategory

CycleTarget(k) == CycleFrom(activeCategory, k)

CycleKey(k) ==
    /\ NormalMode
    /\ k \in input.keys
    /\ k \in {"tab", "shift+tab", "1"}
    /\ activeCategory' = CycleTarget(k)
    /\ Returns(KeyEvent("normal"), <<>>, {})
    /\ UNCHANGED <<keyFixed, listVars, selVars, activeTab, currentNamespace,
                   activePortForwards, statusMessage, dialogVars, showHelp,
                   mgrNamespace, procs>>

\* case "2", "3", "4": jump, and select the item under that pane's cursor.
JumpCategory(k) ==
    IF k = "2" THEN DeploymentsCategory
    ELSE IF k = "3" THEN PodsCategory ELSE ServicesCategory
JumpList(k) ==
    IF k = "2" THEN deploymentsList
    ELSE IF k = "3" THEN podsList ELSE servicesList
JumpType(k) ==
    IF k = "2" THEN "deployment" ELSE IF k = "3" THEN "pod" ELSE "service"
JumpTab(k) == IF k = "3" THEN LogsTab ELSE ConfigTab
\* A faulty variant: the jump to Pods loads the logs, metrics and environment
\* but not the YAML.
JumpCmdsNoYAML(k, name) ==
    IF k = "3" THEN SubSeq(PodLoads(name), 1, 3) ELSE YAMLLoad(name, JumpType(k))

JumpCmds(k, name) ==
    IF k = "3" THEN PodLoads(name) ELSE YAMLLoad(name, JumpType(k))

JumpKey(k) ==
    /\ NormalMode
    /\ k \in input.keys
    /\ k \in {"2", "3", "4"}
    /\ activeCategory' = JumpCategory(k)
    /\ IF HasSelected(JumpList(k)) THEN
           LET name == SelectedItem(JumpList(k)).name IN
           /\ selectedResource' = name
           /\ selectedResourceType' = JumpType(k)
           /\ activeTab' = JumpTab(k)
           /\ Returns(KeyEvent("normal"), JumpCmds(k, name), {})
       ELSE
           /\ Returns(KeyEvent("normal"), <<>>, {})
           /\ UNCHANGED <<selVars, activeTab>>
    /\ UNCHANGED <<keyFixed, listVars, currentNamespace, activePortForwards,
                   statusMessage, dialogVars, showHelp, mgrNamespace, procs>>

\* A faulty variant: x shows the Top tab.
TabOfNoExec(k) ==
    CASE k = "l" -> LogsTab [] k = "s" -> StatsTab [] k = "e" -> EnvTab
      [] k = "c" -> ConfigTab [] OTHER -> TopTab

\* case "l", "s", "e", "c", "t", "x"
TabOf(k) ==
    CASE k = "l" -> LogsTab [] k = "s" -> StatsTab [] k = "e" -> EnvTab
      [] k = "c" -> ConfigTab [] k = "t" -> TopTab [] OTHER -> ExecTab

TabKey(k) ==
    /\ NormalMode
    /\ k \in input.keys
    /\ k \in {"l", "s", "e", "c", "t", "x"}
    /\ activeTab' = TabOf(k)
    /\ Returns(KeyEvent("normal"), <<>>, {})
    /\ UNCHANGED <<keyFixed, activeCategory, listVars, selVars,
                   currentNamespace, activePortForwards, statusMessage,
                   dialogVars, showHelp, mgrNamespace, procs>>

\* A faulty variant: a manual refresh also starts a timer.
RefreshCmdsWithTick ==
    <<Cmd("loadNamespaces", "", ""), Cmd("loadDeployments", "", ""),
      Cmd("loadPods", "", ""), Cmd("loadServices", "", ""), TickCmd>>

\* case "r"
RefreshCmds ==
    <<Cmd("loadNamespaces", "", ""), Cmd("loadDeployments", "", ""),
      Cmd("loadPods", "", ""), Cmd("loadServices", "", "")>>

RefreshKey(k) ==
    /\ NormalMode
    /\ k \in input.keys
    /\ k = "r"
    /\ statusMessage' = Status("Refreshing...", "", 0)
    /\ Returns(KeyEvent("normal"), RefreshCmds, {})
    /\ UNCHANGED <<keyFixed, activeCategory, listVars, selVars, activeTab,
                   currentNamespace, activePortForwards, dialogVars, showHelp,
                   mgrNamespace, procs>>

\* A faulty variant of the namespace switch: the manager is not told.
EnterNamespaceKeyNoSet(k) ==
    /\ NormalMode
    /\ k \in input.keys
    /\ k = "enter"
    /\ activeCategory = NamespacesCategory
    /\ HasSelected(namespacesList)
    /\ LET name == SelectedItem(namespacesList).name IN
       IF ~k8sUp THEN Panics(KeyEvent("normal"))
       ELSE
           /\ currentNamespace' = name
           /\ mgrNamespace' = mgrNamespace
           /\ statusMessage' = Status("Switched to namespace", name, 0)
           /\ activeCategory' = PodsCategory
           /\ Returns(KeyEvent("normal"), NamespaceLoads, {})
           /\ UNCHANGED <<keyFixed, listVars, selVars, activeTab,
                          activePortForwards, dialogVars, showHelp, procs>>

\* case "enter", NamespacesCategory: switch the namespace.
EnterNamespaceKey(k) ==
    /\ NormalMode
    /\ k \in input.keys
    /\ k = "enter"
    /\ activeCategory = NamespacesCategory
    /\ HasSelected(namespacesList)
    /\ LET name == SelectedItem(namespacesList).name IN
       IF ~k8sUp THEN Panics(KeyEvent("normal"))
       ELSE
           /\ currentNamespace' = name
           /\ mgrNamespace' = name
           /\ statusMessage' = Status("Switched to namespace", name, 0)
           /\ activeCategory' = PodsCategory
           /\ Returns(KeyEvent("normal"), NamespaceLoads,
                      {Call("SetNamespace", name, 0)})
           /\ UNCHANGED <<keyFixed, listVars, selVars, activeTab,
                          activePortForwards, dialogVars, showHelp, procs>>

\* case "enter", DeploymentsCategory and PodsCategory: select the item.
EnterResourceKey(k) ==
    /\ NormalMode
    /\ k \in input.keys
    /\ k = "enter"
    /\ \/ /\ activeCategory = DeploymentsCategory
          /\ HasSelected(deploymentsList)
          /\ LET name == SelectedItem(deploymentsList).name IN
             /\ selectedResource' = name
             /\ selectedResourceType' = "deployment"
             /\ statusMessage' = Status("Selected deployment", name, 0)
             /\ activeTab' = ConfigTab
             /\ Returns(KeyEvent("normal"), YAMLLoad(name, "deployment"), {})
       \/ /\ activeCategory = PodsCategory
          /\ HasSelected(podsList)
          /\ LET name == SelectedItem(podsList).name IN
             /\ selectedResource' = name
             /\ selectedResourceType' = "pod"
             /\ statusMessage' = Status("Selected", name, 0)
             /\ activeTab' = LogsTab
             /\ Returns(KeyEvent("normal"), PodLoads(name), {})
    /\ UNCHANGED <<keyFixed, activeCategory, listVars, currentNamespace,
                   activePortForwards, dialogVars, showHelp, mgrNamespace,
                   procs>>

\* The list and the action "d" deletes from, per category.
DeleteList == IF activeCategory = PodsCategory THEN podsList ELSE deploymentsList
\* A faulty variant: d always asks for the deletion of a deployment.
DeleteActionDeployment == "delete-deployment"
DeleteAction ==
    IF activeCategory = PodsCategory THEN "delete-pod" ELSE "delete-deployment"
CanDelete ==
    /\ activeCategory \in {PodsCategory, DeploymentsCategory}
    /\ HasSelected(DeleteList)

\* case "d": open the Confirm dialog for a delete.
DeleteKey(k) ==
    /\ NormalMode
    /\ k \in input.keys
    /\ k = "d"
    /\ CanDelete
    /\ showConfirmDialog' = TRUE
    /\ confirmAction' = DeleteAction
    /\ confirmResource' = SelectedItem(DeleteList).name
    /\ Returns(KeyEvent("normal"), <<>>, {})
    /\ UNCHANGED <<keyFixed, activeCategory, listVars, selVars, activeTab,
                   currentNamespace, activePortForwards, statusMessage,
                   confirmReplicas, showHelp, mgrNamespace, procs>>

\* case "+", "=" and case "-", "_": open the Confirm dialog for a scale.
ScaleUpKeys == {"+", "="}
ScaleDownKeys == {"-", "_"}
\* A faulty variant: scale-down without the Replicas > 0 test.
CanScaleUnguarded(k) ==
    /\ activeCategory = DeploymentsCategory
    /\ HasSelected(deploymentsList)

CanScale(k) ==
    /\ activeCategory = DeploymentsCategory
    /\ HasSelected(deploymentsList)
    /\ k \in ScaleDownKeys => SelectedItem(deploymentsList).replicas > 0

ScaleKey(k) ==
    /\ NormalMode
    /\ k \in input.keys
    /\ k \in ScaleUpKeys \cup ScaleDownKeys
    /\ CanScale(k)
    /\ LET item == SelectedItem(deploymentsList) IN
       /\ showConfirmDialog' = TRUE
       /\ confirmAction' = (IF k \in ScaleUpKeys THEN "scale-up" ELSE "scale-down")
       /\ confirmResource' = item.name
       /\ confirmReplicas' =
            (IF k \in ScaleUpKeys THEN item.replicas + 1 ELSE item.replicas - 1)
    /\ Returns(KeyEvent("normal"), <<>>, {})
    /\ UNCHANGED <<keyFixed, activeCategory, listVars, selVars, activeTab,
                   currentNamespace, activePortForwards, statusMessage,
                   showHelp, mgrNamespace, procs>>

\* "enter", "d" and the scale keys where their case finds nothing to act on:
\* return m, nil.
NoTargetKey(k) ==
    /\ NormalMode
    /\ k \in input.keys
    /\ \/ /\ k = "enter"
          /\ \/ activeCategory = ServicesCategory
             \/ activeCategory = NamespacesCategory /\ ~HasSelected(namespacesList)
             \/ activeCategory = DeploymentsCategory /\ ~HasSelected(deploymentsList)
             \/ activeCategory = PodsCategory /\ ~HasSelected(podsList)
       \/ k = "d" /\ ~CanDelete
       \/ k \in ScaleUpKeys \cup ScaleDownKeys /\ ~CanScale(k)
    /\ Returns(KeyEvent("normal"), <<>>, {})
    /\ UNCHANGED appState

\* case "p": start a port-forward for the pod under the cursor; started says
\* whether exec.Cmd.Start succeeded.  The registry key is "podName:8080".
LocalPort == "8080"
CanForward ==
    /\ activeCategory = PodsCategory
    /\ HasSelected(podsList)
    /\ k8sUp

\* m.activePortForwards[key] = pf
MapSet(map, key, pf) ==
    {e \in map : e.key # key} \cup {[key |-> key, pf |-> pf]}

PortForwardKey(k) ==
    /\ NormalMode
    /\ k \in input.keys
    /\ k = "p"
    /\ CanForward
    /\ LET name == SelectedItem(podsList).name IN
       \E started \in Answers("StartPortForward") :
           /\ IF started THEN
                  /\ Len(procs) < MaxProcs
                  /\ procs' = Append(procs, "running")
                  /\ activePortForwards' =
                       MapSet(activePortForwards, <<name, LocalPort>>, Len(procs) + 1)
                  /\ statusMessage' = Status("Port-forward started", name, 0)
              ELSE
                  /\ statusMessage' = Status("Error starting port-forward", "", 0)
                  /\ UNCHANGED <<procs, activePortForwards>>
           /\ Returns(KeyEvent("normal"), <<>>, {Call("StartPortForward", name, 0)})
    /\ UNCHANGED <<keyFixed, activeCategory, listVars, selVars, activeTab,
                   currentNamespace, dialogVars, showHelp, mgrNamespace>>

\* case "P": stop and forget every registered port-forward.
StopPortForwardsKey(k) ==
    /\ NormalMode
    /\ k \in input.keys
    /\ k = "P"
    /\ k8sUp
    /\ procs' = Killed(procs, StopCalls)
    /\ activePortForwards' = {}
    /\ statusMessage' = Status("Stopped all port-forwards", "", 0)
    /\ Returns(KeyEvent("normal"), <<>>, StopCalls)
    /\ UNCHANGED <<keyFixed, activeCategory, listVars, selVars, activeTab,
                   currentNamespace, dialogVars, showHelp, mgrNamespace>>

\* "p" and "P" where their case does nothing: return m, nil.
NoForwardKey(k) ==
    /\ NormalMode
    /\ k \in input.keys
    /\ \/ k = "p" /\ ~CanForward
       \/ k = "P" /\ ~k8sUp
    /\ Returns(KeyEvent("normal"), <<>>, {})
    /\ UNCHANGED appState

\* After the switch on the category the viewport of the active tab gets the
\* key; only the Logs viewport's offset is followed.  The auto-select above
\* may have made Logs the active tab.
ActiveViewportUpdate(k) ==
    IF activeTab' = LogsTab THEN ViewportUpdate(logsViewport, k) ELSE logsViewport
fallThroughFixed ==
    <<geomVars, statsViewport, envViewport, configViewport, k8sUp, dataVars>>

\* The keys the switch of Update has a case for.
BoundKeys ==
    {"ctrl+c", "q", "?", "tab", "shift+tab", "1", "2", "3", "4", "l", "s",
     "e", "c", "t", "x", "r", "enter", "d", "+", "=", "-", "_", "p", "P"}

\* Any other key falls out of the switch: the active list pane gets the key,
\* then the item under its cursor is auto-selected if its name differs.
\* NamespacesCategory: auto-switch the namespace.
OtherKeyNamespaces(k) ==
    /\ NormalMode
    /\ k \in input.keys
    /\ k \notin BoundKeys
    /\ activeCategory = NamespacesCategory
    /\ LET l == ListNavigate(namespacesList, k)
           switch == HasSelected(l) /\ currentNamespace # SelectedItem(l).name
       IN
       IF switch /\ ~k8sUp THEN Panics(KeyEvent("normal"))
       ELSE
           /\ namespacesList' = l
           /\ IF switch THEN
                  /\ currentNamespace' = SelectedItem(l).name
                  /\ mgrNamespace' = SelectedItem(l).name
                  /\ statusMessage' =
                       Status("Switched to namespace", SelectedItem(l).name, 0)
                  /\ Returns(KeyEvent("normal"), NamespaceLoads \o ListUpdateCmds(k),
                             {Call("SetNamespace", SelectedItem(l).name, 0)})
              ELSE
                  /\ Returns(KeyEvent("normal"), ListUpdateCmds(k), {})
                  /\ UNCHANGED <<currentNamespace, mgrNamespace, statusMessage>>
           /\ UNCHANGED <<fallThroughFixed, activeCategory, deploymentsList,
                          podsList, servicesList, selVars, activeTab,
                          activePortForwards, dialogVars, showHelp, procs>>
           /\ logsViewport' = ActiveViewportUpdate(k)

\* DeploymentsCategory, PodsCategory, ServicesCategory: auto-select.
ActiveList ==
    CASE activeCategory = NamespacesCategory -> namespacesList
      [] activeCategory = DeploymentsCategory -> deploymentsList
      [] activeCategory = PodsCategory -> podsList
      [] OTHER -> servicesList
ActiveType ==
    CASE activeCategory = DeploymentsCategory -> "deployment"
      [] activeCategory = PodsCategory -> "pod"
      [] OTHER -> "service"
AutoSelectCmds(name) ==
    IF activeCategory = PodsCategory THEN PodLoads(name)
    ELSE YAMLLoad(name, ActiveType)

OtherKeyResources(k) ==
    /\ NormalMode
    /\ k \in input.keys
    /\ k \notin BoundKeys
    /\ activeCategory # NamespacesCategory
    /\ LET l == ListNavigate(ActiveList, k) IN
       /\ deploymentsList' =
            (IF activeCategory = DeploymentsCategory THEN l ELSE deploymentsList)
       /\ podsList' = (IF activeCategory = PodsCategory THEN l ELSE podsList)
       /\ servicesList' =
            (IF activeCategory = ServicesCategory THEN l ELSE servicesList)
       /\ IF HasSelected(l) /\ selectedResource # SelectedItem(l).name THEN
              /\ selectedResource' = SelectedItem(l).name
              /\ selectedResourceType' = ActiveType
              /\ statusMessage' = Status("Selected", SelectedItem(l).name, 0)
              /\ activeTab' =
                   (IF activeCategory = PodsCategory THEN LogsTab ELSE ConfigTab)
              /\ Returns(KeyEvent("normal"),
                         AutoSelectCmds(SelectedItem(l).name) \o ListUpdateCmds(k), {})
          ELSE
              /\ Returns(KeyEvent("normal"), ListUpdateCmds(k), {})
              /\ UNCHANGED <<selVars, statusMessage, activeTab>>
    /\ UNCHANGED <<fallThroughFixed, activeCategory, namespacesList,
                   currentNamespace, activePortForwards, dialogVars, showHelp,
                   mgrNamespace, procs>>
    /\ logsViewport' = ActiveViewportUpdate(k)

\* Update, case tea.KeyMsg.
KeyPress(k) ==
    \/ ConfirmDialogKey(k)
    \/ HelpKey(k)
    \/ QuitKey(k)
    \/ HelpToggleKey(k)
    \/ CycleKey(k)
    \/ JumpKey(k)
    \/ TabKey(k)
    \/ RefreshKey(k)
    \/ EnterNamespaceKey(k)
    \/ EnterResourceKey(k)
    \/ DeleteKey(k)
    \/ ScaleKey(k)
    \/ NoTargetKey(k)
    \/ PortForwardKey(k)
    \/ StopPortForwardsKey(k)
    \/ NoForwardKey(k)
    \/ OtherKeyNamespaces(k)
    \/ OtherKeyResources(k)

\* ------------------------------------------------------------ load tasks
\* The message type each load command produces.
ResultKind(kind) ==
    CASE kind = "loadNamespaces" -> "namespacesLoadedMsg"
      [] kind = "loadDeployments" -> "deploymentsLoadedMsg"
      [] kind = "loadPods" -> "podsLoadedMsg"
      [] kind = "loadServices" -> "servicesLoadedMsg"
      [] kind = "loadPodLogs" -> "podLogsLoadedMsg"
      [] kind = "loadPodMetrics" -> "podMetricsLoadedMsg"
      [] kind = "loadPodEnvVars" -> "podEnvVarsLoadedMsg"
      [] OTHER -> "resourceYAMLLoadedMsg"

\* The namespace a backend call uses: Manager.namespace when the call runs
\* (ListNamespaces is cluster-wide).
CallNamespace(kind) == IF kind = "loadNamespaces" THEN "" ELSE mgrNamespace

\* A faulty variant: with a nil manager the closure answers an empty success.
TaskResultNilSilent(t, ok) ==
    IF ~k8sUp \/ ok THEN
        Msg(ResultKind(t.kind), "", CallNamespace(t.kind), t.name, t.type)
    ELSE Msg(ResultKind(t.kind), "backend error", "", t.name, t.type)

\* A faulty variant: the closure without the nil-manager test.
TaskResultUnguarded(t, ok) ==
    IF ok THEN Msg(ResultKind(t.kind), "", CallNamespace(t.kind), t.name, t.type)
    ELSE Msg(ResultKind(t.kind), "backend error", "", t.name, t.type)

\* The closure of a load command: with a nil manager the error result at
\* once, otherwise the backend call and its answer.
TaskResult(t, ok) ==
    IF ~k8sUp THEN
        Msg(ResultKind(t.kind), "k8s manager not initialized", "", t.name, t.type)
    ELSE IF ok THEN
        Msg(ResultKind(t.kind), "", CallNamespace(t.kind), t.name, t.type)
    ELSE Msg(ResultKind(t.kind), "backend error", "", t.name, t.type)

\* One dispatched load runs in its goroutine and queues its result.
RunTask(t) ==
    /\ Running
    /\ t \in tasks
    /\ \E ok \in Answers(t.kind) :
           msgs' = msgs \cup {TaskResult(t, ok)}
    /\ lastEvent' = Event("run", "", NoMsg)
    /\ tasks' = tasks \ {t}
    /\ lastCmds' = <<>>
    /\ lastCalls' = (IF k8sUp THEN {Call(t.kind, t.name, 0)} ELSE {})
    /\ UNCHANGED <<appState, pendingTicks, quit, panicked, input, logViewer>>

\* ------------------------------------------------------- result messages
MsgEvent(m) == Event("msg", "", m)

ListResultKinds ==
    {"namespacesLoadedMsg", "deploymentsLoadedMsg", "podsLoadedMsg",
     "servicesLoadedMsg"}

\* The text of the status line for a failed list load.
ListErrorText(kind) ==
    CASE kind = "namespacesLoadedMsg" -> "Error loading namespaces"
      [] kind = "deploymentsLoadedMsg" -> "Error loading deployments"
      [] kind = "podsLoadedMsg" -> "Error loading pods"
      [] OTHER -> "Error loading services"

\* A faulty variant: the items are put into the pane in reverse order.
ListPayloadReversed(m) ==
    LET items == CASE m.kind = "namespacesLoadedMsg" -> BackendNamespaces
                   [] m.kind = "deploymentsLoadedMsg" -> BackendDeployments(m.ns)
                   [] m.kind = "podsLoadedMsg" -> BackendPods(m.ns)
                   [] OTHER -> BackendServices(m.ns)
    IN [i \in 1..Len(items) |-> items[Len(items) + 1 - i]]

\* The items a successful list result carries.
ListPayload(m) ==
    CASE m.kind = "namespacesLoadedMsg" -> BackendNamespaces
      [] m.kind = "deploymentsLoadedMsg" -> BackendDeployments(m.ns)
      [] m.kind = "podsLoadedMsg" -> BackendPods(m.ns)
      [] OTHER -> BackendServices(m.ns)

\* Update, cases namespacesLoadedMsg .. servicesLoadedMsg.
ListLoaded(m) ==
    /\ Running
    /\ m \in msgs
    /\ m.kind \in ListResultKinds
    /\ IF m.err # "" THEN
           /\ statusMessage' = Status(ListErrorText(m.kind), m.err, 0)
           /\ UNCHANGED listVars
       ELSE
           /\ namespacesList' =
                (IF m.kind = "namespacesLoadedMsg"
                 THEN ListSetItems(namespacesList, ListPayload(m))
                 ELSE namespacesList)
           /\ deploymentsList' =
                (IF m.kind = "deploymentsLoadedMsg"
                 THEN ListSetItems(deploymentsList, ListPayload(m))
                 ELSE deploymentsList)
           /\ podsList' =
                (IF m.kind = "podsLoadedMsg"
                 THEN ListSetItems(podsList, ListPayload(m))
                 ELSE podsList)
           /\ servicesList' =
                (IF m.kind = "servicesLoadedMsg"
                 THEN ListSetItems(servicesList, ListPayload(m))
                 ELSE servicesList)
           /\ statusMessage' =
                (IF m.kind = "podsLoadedMsg" /\ statusMessage.text = "Refreshing..."
                 THEN Status("Loaded pods", currentNamespace, Len(ListPayload(m)))
                 ELSE statusMessage)
    /\ Returns(MsgEvent(m), <<>>, {})
    /\ UNCHANGED <<geomVars, activeCategory, selVars, activeTab, viewVars,
                   k8sUp, currentNamespace, dataVars, activePortForwards,
                   dialogVars, showHelp, mgrNamespace, procs>>

\* A faulty variant: the logs are set without GotoBottom.
LogsShownInPlace(v, m) == ViewportSetContent(v, <<"logs", m.name, m.ns>>)

\* m.logsViewport.SetContent(msg.logs); m.logsViewport.GotoBottom()
LogsShown(v, m) ==
    ViewportGotoBottom(ViewportSetContent(v, <<"logs", m.name, m.ns>>))

\* Update, case podLogsLoadedMsg.
LogsLoaded(m) ==
    /\ Running
    /\ m \in msgs
    /\ m.kind = "podLogsLoadedMsg"
    /\ logsViewport' =
         (IF m.err # "" THEN ViewportSetContent(logsViewport, <<"Error", m.err>>)
          ELSE LogsShown(logsViewport, m))
    /\ Returns(MsgEvent(m), <<>>, {})
    /\ UNCHANGED <<geomVars, activeCategory, listVars, selVars, activeTab,
                   statsViewport, envViewport, configViewport, k8sUp,
                   currentNamespace, dataVars, activePortForwards,
                   statusMessage, dialogVars, showHelp, mgrNamespace, procs>>

\* renderStats, with currentMetrics as given.
renderStats(metrics) ==
    IF selectedResource = "" THEN <<"Select a pod to view stats">>
    ELSE IF metrics = <<>> THEN <<"Loading metrics", selectedResource>>
    ELSE <<"Resource Metrics", metrics[1], metrics[2]>>

\* A faulty variant: a failed metrics load is reported in the status line
\* like a failed list load.
MetricsLoadedHard(m) ==
    /\ Running
    /\ m \in msgs
    /\ m.kind = "podMetricsLoadedMsg"
    /\ IF m.err # "" THEN
           /\ currentMetrics' = <<>>
           /\ statsViewport' = <<"Metrics unavailable", selectedResource>>
           /\ statusMessage' = Status("Error loading metrics", m.err, 0)
       ELSE
           /\ currentMetrics' = <<m.name, m.ns>>
           /\ statsViewport' = renderStats(<<m.name, m.ns>>)
           /\ UNCHANGED statusMessage
    /\ Returns(MsgEvent(m), <<>>, {})
    /\ UNCHANGED <<geomVars, activeCategory, listVars, selVars, activeTab,
                   logsViewport, envViewport, configViewport, k8sUp,
                   currentNamespace, currentEnvVars, currentYAML,
                   activePortForwards, dialogVars, showHelp,
                   mgrNamespace, procs>>

\* Update, case podMetricsLoadedMsg.
MetricsLoaded(m) ==
    /\ Running
    /\ m \in msgs
    /\ m.kind = "podMetricsLoadedMsg"
    /\ IF m.err # "" THEN
           /\ currentMetrics' = <<>>
           /\ statsViewport' = <<"Metrics unavailable", selectedResource>>
       ELSE
           /\ currentMetrics' = <<m.name, m.ns>>
           /\ statsViewport' = renderStats(<<m.name, m.ns>>)
    /\ Returns(MsgEvent(m), <<>>, {})
    /\ UNCHANGED <<geomVars, activeCategory, listVars, selVars, activeTab,
                   logsViewport, envViewport, configViewport, k8sUp,
                   currentNamespace, currentEnvVars, currentYAML,
                   activePortForwards, statusMessage, dialogVars, showHelp,
                   mgrNamespace, procs>>

\* renderEnv, with currentEnvVars as given.
renderEnv(envVars) ==
    IF selectedResource = "" THEN <<"Select a pod to view environment variables">>
    ELSE IF envVars = <<>> THEN <<"Loading environment variables", selectedResource>>
    ELSE <<"Environment Variables", envVars[1], envVars[2]>>

\* Update, case podEnvVarsLoadedMsg.
EnvVarsLoaded(m) ==
    /\ Running
    /\ m \in msgs
    /\ m.kind = "podEnvVarsLoadedMsg"
    /\ IF m.err # "" THEN
           /\ currentEnvVars' = <<>>
           /\ envViewport' = <<"Error loading environment variables", m.err>>
       ELSE
           /\ currentEnvVars' = <<m.name, m.ns>>
           /\ envViewport' = renderEnv(<<m.name, m.ns>>)
    /\ Returns(MsgEvent(m), <<>>, {})
    /\ UNCHANGED <<geomVars, activeCategory, listVars, selVars, activeTab,
                   logsViewport, statsViewport, configViewport, k8sUp,
                   currentNamespace, currentMetrics, currentYAML,
                   activePortForwards, statusMessage, dialogVars, showHelp,
                   mgrNamespace, procs>>

\* renderConfig, with currentYAML as given: a header from the current
\* selection over the loaded document.
renderConfig(yaml) ==
    IF selectedResource = "" THEN <<"Select a resource to view YAML configuration">>
    ELSE IF yaml = <<>> THEN <<"Loading YAML", selectedResource>>
    ELSE <<"YAML Configuration", selectedResourceType, selectedResource,
           currentNamespace>> \o yaml

\* Update, case resourceYAMLLoadedMsg.
YAMLLoaded(m) ==
    /\ Running
    /\ m \in msgs
    /\ m.kind = "resourceYAMLLoadedMsg"
    /\ IF m.err # "" THEN
           /\ currentYAML' = <<"Error loading YAML", m.err>>
           /\ configViewport' = <<"Error loading YAML", m.err>>
       ELSE
           /\ currentYAML' = <<"yaml", m.type, m.name, m.ns>>
           /\ configViewport' = renderConfig(<<"yaml", m.type, m.name, m.ns>>)
    /\ Returns(MsgEvent(m), <<>>, {})
    /\ UNCHANGED <<geomVars, activeCategory, listVars, selVars, activeTab,
                   logsViewport, statsViewport, envViewport, k8sUp,
                   currentNamespace, currentMetrics, currentEnvVars,
                   activePortForwards, statusMessage, dialogVars, showHelp,
                   mgrNamespace, procs>>

\* ---------------------------------------------------------------- the tick
\* A faulty variant: the tick forgets the services reload.
TickCmdsNoServices ==
    <<Cmd("loadDeployments", "", ""), Cmd("loadPods", "", ""), TickCmd>>

\* A faulty variant: the tick also reloads the YAML of the selection.
TickCmdsWithYAML ==
    <<Cmd("loadDeployments", "", ""), Cmd("loadPods", "", ""),
      Cmd("loadServices", "", ""),
      Cmd("loadResourceYAML", selectedResource, selectedResourceType), TickCmd>>

\* A faulty variant: the tick reloads the lists and schedules no next tick.
TickCmdsNoRearm ==
    <<Cmd("loadDeployments", "", ""), Cmd("loadPods", "", ""),
      Cmd("loadServices", "", "")>>

\* Update, case tickMsg: three list reloads and the next tick.
TickCmds ==
    <<Cmd("loadDeployments", "", ""), Cmd("loadPods", "", ""),
      Cmd("loadServices", "", ""), TickCmd>>

\* A faulty variant: a tick under an overlay is dropped, and the timer with it.
TickDroppedUnderOverlay ==
    /\ Running
    /\ input.ticks
    /\ pendingTicks > 0
    /\ Returns(Event("tick", "", NoMsg),
               IF showConfirmDialog \/ showHelp THEN <<>> ELSE TickCmds, {})
    /\ UNCHANGED appState

Tick ==
    /\ Running
    /\ input.ticks
    /\ pendingTicks > 0
    /\ Returns(Event("tick", "", NoMsg), TickCmds, {})
    /\ UNCHANGED appState

\* ------------------------------------------------------------------ View
\* len(helpText), in bytes.
HelpTextLen == 180

\* View: the help hint is cut to maxHelpWidth bytes, ellipsis included.
maxHelpWidth(w) == w - 4
HelpTruncated(w) == HelpTextLen > maxHelpWidth(w)
\* A faulty variant: the slice leaves no room for the ellipsis.
HelpSliceEndNoRoom(w) == maxHelpWidth(w)
\* helpText[:maxHelpWidth-3]: the end index of the slice.
HelpSliceEnd(w) == maxHelpWidth(w) - 3
HelpHintLen(w) == IF HelpTruncated(w) THEN HelpSliceEnd(w) + 3 ELSE HelpTextLen

\* renderSection: the inner width and the strings.Repeat counts of the top
\* and the bottom border.
SectionWidth(w) == (w \div 3) - 2
LeftPad == 2
RightPad(w, titleLen) ==
    LET n == SectionWidth(w) - LeftPad - titleLen - 4 IN IF n < 2 THEN 2 ELSE n
BottomBorderCount(w) == SectionWidth(w) - 2

\* len(title) of the four sections.
SectionTitleLens == {14, 15, 8, 12}

\* View dies: strings.Repeat with a negative count, or a slice with a
\* negative end index.
ViewPanics(w) ==
    \/ \E t \in SectionTitleLens : RightPad(w, t) < 0
    \/ BottomBorderCount(w) < 0
    \/ HelpTruncated(w) /\ HelpSliceEnd(w) < 0

\* ------------------------------------------------------------ the layout
\* Go's integer division truncates toward zero.
GoDiv(a, b) == IF a >= 0 THEN a \div b ELSE -((-a) \div b)

\* Update, case tea.WindowSizeMsg: the left region and the height of each of
\* the four list panes.
leftPaneWidth(w) == GoDiv(w, 3)

sectionHeightUnclamped(h) == GoDiv(h - 6, 4) - 2

sectionHeight(h) ==
    LET s == GoDiv(h - 6, 4) - 2 IN IF s < 3 THEN 3 ELSE s

\* The size the four lists hold: 0 by 0 from NewModel, then what the last
\* resize gave to SetSize.
ListWidth == IF ready THEN leftPaneWidth(width) - 4 ELSE 0
ListHeight == IF ready THEN sectionHeight(height) ELSE 0

\* ------------------------------------------------------------ the resize
\* Update, case tea.WindowSizeMsg: the geometry is recomputed and, with
\* HighPerformanceRendering off, the four viewports are created anew; the
\* runtime then renders the new Model with View.
WindowSize(w, h) ==
    /\ Running
    /\ width' = w
    /\ height' = h
    /\ ready' = TRUE
    /\ logsViewport' = NewViewport
    /\ statsViewport' = <<>>
    /\ envViewport' = <<>>
    /\ configViewport' = <<>>
    /\ lastEvent' = Event("resize", "", NoMsg)
    /\ lastCmds' = <<>>
    /\ lastCalls' = {}
    /\ panicked' = ViewPanics(w)
    /\ UNCHANGED <<tasks, msgs, pendingTicks, quit, input, logViewer>>
    /\ UNCHANGED <<activeCategory, listVars, selVars, activeTab, k8sUp,
                   currentNamespace, dataVars, activePortForwards,
                   statusMessage, dialogVars, showHelp, mgrNamespace, procs>>

\* ------------------------------------------------------------------ Next
Next ==
    \/ \E k \in Keys : KeyPress(k)
    \/ \E t \in tasks : RunTask(t)
    \/ \E m \in msgs : ListLoaded(m)
    \/ \E m \in msgs : LogsLoaded(m)
    \/ \E m \in msgs : MetricsLoaded(m)
    \/ \E m \in msgs : EnvVarsLoaded(m)
    \/ \E m \in msgs : YAMLLoaded(m)
    \/ Tick
    \/ \E s \in input.sizes : WindowSize(s[1], s[2])

Spec == Init /\ [][Next]_vars


\* ============================================================ properties
\* The keys each overlay is documented to answer, and the keys documented to
\* open the Confirm dialog and to quit.
ConfirmAnswerKeys == {"y", "Y", "n", "N", "esc", "q"}
HelpAnswerKeys == {"?", "q", "esc"}
ConfirmEntryKeys == {"d", "+", "=", "-", "_"}
QuitKeys == {"q", "ctrl+c"}

\* What a handled event leaves alone when it does nothing at all: the whole
\* application state, no command returned, no backend call made.
Swallowed ==
    /\ UNCHANGED appState
    /\ lastCmds' = <<>>
    /\ lastCalls' = {}
    /\ UNCHANGED <<tasks, msgs, pendingTicks, quit, panicked>>

\* C1: while the Confirm dialog or the Help screen is shown, a key other
\* than the documented ones (y/Y/n/N/esc/q for Confirm; ?/q/esc for Help),
\* ctrl+c included, leaves the whole application state unchanged and issues
\* no command: a step either changes nothing or is not such a key press.
C1_OverlaySwallowsOtherKeys ==
    [][\/ Swallowed
       \/ /\ \A k \in Keys \ ConfirmAnswerKeys : ~ConfirmDialogKey(k)
          /\ \A k \in Keys \ HelpAnswerKeys : ~HelpKey(k)]_vars

\* A key was handled by the Help branch and Help is still shown, with
\* port-forwards registered: the key was not one of the closing keys.
C1_Witness ==
    /\ showHelp
    /\ lastEvent = KeyEvent("help")
    /\ activePortForwards # {}
    /\ ~quit

\* The backend call performConfirmedAction makes for the captured action.
CapturedCall ==
    CASE confirmAction = "delete-pod" -> Call("DeletePod", confirmResource, 0)
      [] confirmAction = "delete-deployment" ->
            Call("DeleteDeployment", confirmResource, 0)
      [] OTHER -> Call("ScaleDeployment", confirmResource, confirmReplicas)

\* The Confirm dialog is left without anything done.
Cancelled ==
    /\ ~showConfirmDialog'
    /\ statusMessage' = Status("Action cancelled", "", 0)
    /\ lastCmds' = <<>>
    /\ lastCalls' = {}
    /\ tasks' = tasks

\* C2: from Confirm, only y/Y executes the captured action and only
\* n/N/esc/q cancels (status "Action cancelled", no backend call, no load);
\* both close the dialog.  The dialog is opened only from normal mode and
\* only by d, +, =, - or _: never by a load result, a tick, a resize or
\* another key.
C2_ConfirmTransitions ==
    [][/\ \A k \in {"y", "Y"} :
             ConfirmDialogKey(k) =>
                 /\ ~showConfirmDialog'
                 /\ k8sUp => lastCalls' = {CapturedCall}
       /\ \A k \in {"n", "N", "esc", "q"} : ConfirmDialogKey(k) => Cancelled
       /\ \A k \in Keys \ {"y", "Y"} :
             ConfirmDialogKey(k) => (lastCalls' = {} /\ tasks' = tasks)
       /\ \A k \in Keys \ ConfirmAnswerKeys :
             ConfirmDialogKey(k) => showConfirmDialog'
       /\ (showConfirmDialog /\ ~showConfirmDialog') =>
             lastEvent' = KeyEvent("confirm")
       /\ (~showConfirmDialog /\ showConfirmDialog') =>
             /\ ~showHelp
             /\ lastEvent' = KeyEvent("normal")
             /\ \E k \in ConfirmEntryKeys : DeleteKey(k) \/ ScaleKey(k)
             /\ \A k \in Keys \ ConfirmEntryKeys : ~KeyPress(k)]_vars

\* The dialog was confirmed and the captured action reached the backend.
C2_Witness ==
    /\ ~showConfirmDialog
    /\ lastEvent = KeyEvent("confirm")
    /\ \E c \in lastCalls : c.op \in {"DeletePod", "DeleteDeployment", "ScaleDeployment"}

\* C3: the Confirm dialog and the Help screen are never both shown.
C3_OneOverlay == ~(showConfirmDialog /\ showHelp)

\* The Confirm dialog is shown and has just swallowed a key ("?" among them).
C3_Witness ==
    /\ showConfirmDialog
    /\ ~showHelp
    /\ lastEvent = KeyEvent("confirm")

\* C4: from normal mode "?" opens Help; in Help each of ?, q, esc closes it;
\* q in Help neither quits nor touches the port-forwards.
C4_HelpTransitions ==
    [][/\ HelpToggleKey("?") => (~showHelp /\ showHelp')
       /\ \A k \in HelpAnswerKeys :
             HelpKey(k) =>
                 /\ showHelp /\ ~showHelp'
                 /\ ~quit'
                 /\ lastCmds' = <<>>
                 /\ lastCalls' = {}
                 /\ UNCHANGED <<procs, activePortForwards>>]_vars

\* Help was closed from the Help branch while a port-forward is registered
\* and its process still runs.
C4_Witness ==
    /\ ~showHelp
    /\ lastEvent = KeyEvent("help")
    /\ ~quit
    /\ \E e \in activePortForwards : procs[e.pf] = "running"

\* The tab-content results.
ContentLoaded(m) ==
    LogsLoaded(m) \/ MetricsLoaded(m) \/ EnvVarsLoaded(m) \/ YAMLLoaded(m)

\* C5: a tab-content result is applied only if the resource it was loaded
\* for is still the selected one; a stale result never overwrites the
\* content shown.
C5_StaleResultDropped ==
    [][\A m \in msgs :
          (/\ ContentLoaded(m)
           /\ <<m.name, m.type>> # <<selectedResource, selectedResourceType>>)
          => UNCHANGED <<viewVars, dataVars>>]_vars

\* C6: from Init to quit exactly one timer is outstanding; a tick schedules
\* exactly one successor and no other event schedules a tick.
C6_OneTimer ==
    /\ ~quit => pendingTicks = 1
    /\ lastEvent.type \in {"init", "tick"} => TicksOf(lastCmds) = 1
    /\ lastEvent.type \notin {"init", "tick"} => TicksOf(lastCmds) = 0

\* A tick has been handled after a manual refresh was asked for.
C6_Witness ==
    /\ lastEvent.type = "tick"
    /\ statusMessage = Status("Refreshing...", "", 0)
    /\ pendingTicks = 1

\* C7, as stated: every tick re-issues all four list loads, namespaces,
\* deployments, pods and services.
C7_TickReloadsFourLists ==
    lastEvent.type = "tick" =>
        \A kind \in {"loadNamespaces", "loadDeployments", "loadPods", "loadServices"} :
            Cmd(kind, "", "") \in Range(lastCmds)

\* C7, amended: every tick re-issues exactly three list loads, deployments,
\* pods and services, and not the namespaces load.
C7_TickReloadsThreeLists ==
    lastEvent.type = "tick" =>
        LoadsOf(lastCmds) =
            {Cmd(kind, "", "") : kind \in {"loadDeployments", "loadPods", "loadServices"}}

\* A tick has been handled and its pods reload is in flight.
C7_Witness ==
    /\ lastEvent.type = "tick"
    /\ Cmd("loadPods", "", "") \in tasks

\* Every process started for a port-forward has been signalled.
AllSignalled == \A i \in 1..Len(procs) : procs[i] = "killed"

\* C8: no port-forward process is leaked: at quit, and after P, every
\* process that was started has been signalled (p twice for the same pod
\* included).
C8_NoProcessLeaked ==
    /\ quit => AllSignalled
    /\ (lastEvent = KeyEvent("normal")
        /\ statusMessage = Status("Stopped all port-forwards", "", 0)
        /\ activePortForwards = {}) => AllSignalled

ListPanes == {namespacesList, deploymentsList, podsList, servicesList}

\* The cursor of a pane is on one of its items; an empty pane selects nothing.
CursorInRange(l) ==
    /\ l.cursor >= 0
    /\ IF l.items = <<>> THEN ~HasSelected(l) ELSE l.cursor < Len(l.items)

\* A key that reaches the active list pane.
ListKey(k) == OtherKeyNamespaces(k) \/ OtherKeyResources(k)

Categories ==
    {NamespacesCategory, DeploymentsCategory, PodsCategory, ServicesCategory}

\* C12: category cycling is a bijection on the four categories: tab then
\* shift+tab, and shift+tab then tab, return to the original category, four
\* tabs return to it, shift+tab from Namespaces yields Services, and the
\* active category is always one of the four.
C12_CategoryCycle ==
    /\ activeCategory \in Categories
    /\ CycleFrom(NamespacesCategory, "shift+tab") = ServicesCategory
    /\ \A c \in Categories :
          /\ CycleFrom(CycleFrom(c, "tab"), "shift+tab") = c
          /\ CycleFrom(CycleFrom(c, "shift+tab"), "tab") = c
          /\ CycleFrom(CycleFrom(CycleFrom(CycleFrom(c, "tab"), "tab"), "tab"), "tab") = c
    /\ [][/\ activeCategory' \in Categories
          /\ CycleKey("tab") =>
                /\ activeCategory' # activeCategory
                /\ CycleTarget("shift+tab")' = activeCategory
          /\ CycleKey("shift+tab") =>
                /\ activeCategory' # activeCategory
                /\ CycleTarget("tab")' = activeCategory]_vars

\* Services was reached by cycling: no jump has selected anything.
C12_Witness ==
    /\ activeCategory = ServicesCategory
    /\ selectedResource = ""
    /\ lastEvent = KeyEvent("normal")
    /\ servicesList.items # <<>>

\* C13: with a deployment of r replicas under the cursor, a scale-up key
\* opens the Confirm dialog with target r + 1 and a scale-down key opens it
\* with target r - 1; when r = 0 a scale-down key opens no dialog and changes
\* nothing; the captured target is never negative.
C13_ScaleTarget ==
    /\ confirmReplicas >= 0
    /\ [][/\ confirmReplicas' >= 0
          /\ \A k \in ScaleUpKeys : ScaleKey(k) =>
                /\ showConfirmDialog'
                /\ confirmAction' = "scale-up"
                /\ confirmResource' = SelectedItem(deploymentsList).name
                /\ confirmReplicas' = SelectedItem(deploymentsList).replicas + 1
          /\ \A k \in ScaleDownKeys : ScaleKey(k) =>
                /\ showConfirmDialog'
                /\ confirmAction' = "scale-down"
                /\ confirmResource' = SelectedItem(deploymentsList).name
                /\ confirmReplicas' = SelectedItem(deploymentsList).replicas - 1
          /\ ( /\ NormalMode
               /\ activeCategory = DeploymentsCategory
               /\ HasSelected(deploymentsList)
               /\ SelectedItem(deploymentsList).replicas = 0
               /\ \E k \in ScaleDownKeys : KeyPress(k) )
             => ( /\ ~showConfirmDialog'
                  /\ UNCHANGED appState
                  /\ lastCmds' = <<>>
                  /\ lastCalls' = {}
                  /\ tasks' = tasks )]_vars

\* The dialog is open for a scale-down of a deployment with one replica.
C13_Witness ==
    /\ showConfirmDialog
    /\ confirmAction = "scale-down"
    /\ confirmResource = "web"
    /\ confirmReplicas = 0
    /\ SelectedItem(deploymentsList).replicas = 1

\* The keys that switch the active category.
SwitchKeys == {"tab", "shift+tab", "1", "2", "3", "4"}

\* The loads of the selection of the item under the active list's cursor.
SelectionCmds ==
    IF activeCategory = PodsCategory THEN PodLoads(SelectedItem(ActiveList).name)
    ELSE YAMLLoad(SelectedItem(ActiveList).name, ActiveType)

\* C14: whenever a category-switch key (tab, shift+tab, 1-4) changes the
\* active category to Deployments, Pods or Services and that category's list
\* has a selected item, the selection is re-derived from that item and its
\* loads are dispatched (logs, metrics, env and YAML for a pod; YAML only for
\* a deployment or service).
C14_SwitchReselects ==
    [][( /\ activeCategory' # activeCategory
         /\ activeCategory' # NamespacesCategory
         /\ HasSelected(ActiveList')
         /\ \E k \in SwitchKeys : CycleKey(k) \/ JumpKey(k) )
       => ( /\ selectedResource' = SelectedItem(ActiveList').name
            /\ selectedResourceType' = ActiveType'
            /\ lastCmds' = SelectionCmds' )]_vars

\* C15: a navigation key that moves the active list's cursor onto an item
\* whose identity (name and kind) differs from the selection updates the
\* selection to that item's name and kind and re-issues its loads, also when
\* the item has the selection's name but another kind.
C15_AutoPreview ==
    [][( /\ activeCategory # NamespacesCategory
         /\ ActiveList'.cursor # ActiveList.cursor
         /\ HasSelected(ActiveList')
         /\ <<SelectedItem(ActiveList').name, ActiveType>>
              # <<selectedResource, selectedResourceType>>
         /\ \E k \in Keys : OtherKeyResources(k) )
       => ( /\ selectedResource' = SelectedItem(ActiveList').name
            /\ selectedResourceType' = ActiveType
            /\ lastCmds' = SelectionCmds' )]_vars

\* The triple the content tabs describe.
SelectionContext == <<selectedResource, selectedResourceType, currentNamespace>>

\* The last step dispatched a tab-content load.
ContentKinds ==
    {"loadPodLogs", "loadPodMetrics", "loadPodEnvVars", "loadResourceYAML"}
DispatchesContent ==
    \E i \in 1..Len(lastCmds) : lastCmds[i].kind \in ContentKinds

\* C16 as stated: tab-content loads are dispatched only by a step that
\* changes SelectionContext; a step that leaves it unchanged (enter or 3
\* again on the selected pod, a tab switch, a tick, a refresh) dispatches
\* none.
C16_LoadsOnlyOnSelectionChange ==
    [][DispatchesContent' => SelectionContext' # SelectionContext]_vars

\* C16, amended: tab-content loads are dispatched only by a key step that
\* selects the item under the active list's cursor (enter on a deployment or
\* pod, a jump key 2, 3, 4, or a navigation key that reaches an item named
\* differently from the selection), whether or not SelectionContext changes;
\* tab switches, category cycling, ticks, a refresh, results and resizes
\* dispatch none.
C16_LoadsOnlyOnSelect ==
    [][DispatchesContent' =>
          /\ lastEvent' = KeyEvent("normal")
          /\ selectedResource' = SelectedItem(ActiveList').name
          /\ selectedResourceType' = ActiveType'
          /\ lastCmds' = SelectionCmds'
          /\ \/ EnterResourceKey("enter")
             \/ \E k \in {"2", "3", "4"} : JumpKey(k)
             \/ /\ selectedResource' # selectedResource
                /\ \E k \in Keys : OtherKeyResources(k)]_vars

\* The YAML of deployment web is shown and a step has just dispatched its
\* load once more.
C16_Witness ==
    /\ selectedResource = "web"
    /\ selectedResourceType = "deployment"
    /\ currentYAML = <<"yaml", "deployment", "web", "default">>
    /\ lastCmds = YAMLLoad("web", "deployment")
    /\ lastEvent = KeyEvent("normal")

\* The kinds of load the last step dispatched.
DispatchedKinds == {lastCmds[i].kind : i \in 1..Len(lastCmds)}
LowerListKinds == {"loadDeployments", "loadPods", "loadServices"}
AllListKinds == LowerListKinds \cup {"loadNamespaces"}

\* The step selects a namespace: enter in the Namespaces category, or a
\* navigation key there that reaches another namespace.
SelectsNamespace ==
    \/ EnterNamespaceKey("enter") /\ ~panicked'
    \/ /\ currentNamespace' # currentNamespace
       /\ \E k \in Keys : OtherKeyNamespaces(k)

\* Selecting a namespace makes the item under the cursor the active
\* namespace and dispatches the reloads of deployments, pods and services.
NamespaceSelectionReloads ==
    SelectsNamespace =>
        /\ currentNamespace' = SelectedItem(namespacesList').name
        /\ mgrNamespace' = currentNamespace'
        /\ DispatchedKinds' = LowerListKinds

\* C17 as stated: selecting a namespace changes the active namespace and
\* dispatches reloads of deployments, pods and services, and no other key
\* press dispatches loads for all of these list panes.
C17_OnlyNamespaceReloadsAll ==
    [][/\ NamespaceSelectionReloads
       /\ (lastEvent'.type = "key" /\ LowerListKinds \subseteq DispatchedKinds')
             => SelectsNamespace]_vars

\* C17, amended: selecting a namespace changes the active namespace and
\* dispatches reloads of deployments, pods and services; the only other key
\* press that dispatches loads for all of these panes is r, which reloads
\* all four lists and leaves the namespace alone.
C17_NamespaceOrRefreshReloadsAll ==
    [][/\ NamespaceSelectionReloads
       /\ (lastEvent'.type = "key" /\ LowerListKinds \subseteq DispatchedKinds')
             => \/ SelectsNamespace
                \/ /\ RefreshKey("r")
                   /\ DispatchedKinds' = AllListKinds
                   /\ currentNamespace' = currentNamespace]_vars

\* Namespace app has just been selected.
C17_Witness ==
    /\ currentNamespace = "app"
    /\ mgrNamespace = "app"
    /\ DispatchedKinds = LowerListKinds
    /\ lastCalls = {Call("SetNamespace", "app", 0)}
    /\ lastEvent = KeyEvent("normal")

\* ------------------------------------------------ the nil-manager guards
\* The eight load closures and performConfirmedAction taken as units with
\* m.k8sManager == nil: one load request is pending and the dialog fields
\* performConfirmedAction reads are drawn from small sets.
NilManagerInput == Scenario(FALSE, {"y", "Y", "n", "z"}, FALSE, {}, FALSE, {})
EightLoads == Range(RefreshCmds) \cup Range(PodLoads("web"))

NilManagerInit ==
    /\ input = NilManagerInput
    /\ width = 0 /\ height = 0 /\ ready = FALSE
    /\ activeCategory = NamespacesCategory
    /\ namespacesList = EmptyList
    /\ deploymentsList = EmptyList
    /\ podsList = EmptyList
    /\ servicesList = EmptyList
    /\ selectedResource = "" /\ selectedResourceType = ""
    /\ activeTab = LogsTab
    /\ logsViewport = NewViewport /\ statsViewport = <<>>
    /\ envViewport = <<>> /\ configViewport = <<>>
    /\ k8sUp = FALSE
    /\ currentNamespace = "default"
    /\ currentMetrics = <<>> /\ currentEnvVars = <<>> /\ currentYAML = <<>>
    /\ activePortForwards = {}
    /\ statusMessage = Status("K8s init failed", "", 0)
    /\ showConfirmDialog = TRUE
    /\ confirmAction \in ActionOps
    /\ confirmResource \in {"web", "api"}
    /\ confirmReplicas \in 0..2
    /\ showHelp = FALSE
    /\ mgrNamespace = "default"
    /\ procs = <<>>
    /\ \E c \in EightLoads : tasks = {c}
    /\ msgs = {}
    /\ pendingTicks = 0
    /\ quit = FALSE
    /\ panicked = FALSE
    /\ lastEvent = Event("init", "", NoMsg)
    /\ logViewer = NewLogViewer
    /\ lastCmds = <<>>
    /\ lastCalls = {}

NilManagerNext ==
    \/ \E k \in input.keys : ConfirmDialogKey(k)
    \/ \E t \in tasks : RunTask(t)
    \/ \E m \in msgs : ListLoaded(m)
    \/ \E m \in msgs : LogsLoaded(m)
    \/ \E m \in msgs : MetricsLoaded(m)
    \/ \E m \in msgs : EnvVarsLoaded(m)
    \/ \E m \in msgs : YAMLLoaded(m)

NilManagerSpec == NilManagerInit /\ [][NilManagerNext]_vars

NotInitialized == "k8s manager not initialized"

\* C18: with a nil manager each of the eight load requests completes with
\* exactly one result, the error "k8s manager not initialized", without a
\* backend call; every confirmed mutating action (delete pod, delete
\* deployment, scale) sets the error status without a backend call and
\* without dispatching a reload.
C18_NilManagerGuards ==
    /\ Cardinality(tasks) + Cardinality(msgs) <= 1
    /\ [][/\ Cardinality(tasks') + Cardinality(msgs') <= 1
          /\ \A t \in tasks : RunTask(t) =>
                /\ lastCalls' = {}
                /\ tasks' = {}
                /\ \E m \in msgs' :
                      /\ msgs' = {m}
                      /\ m.kind = ResultKind(t.kind)
                      /\ m.err = NotInitialized
          /\ \A k \in {"y", "Y"} : ConfirmDialogKey(k) =>
                /\ statusMessage' = Status("Error: " \o NotInitialized, "", 0)
                /\ lastCalls' = {}
                /\ lastCmds' = <<>>
                /\ tasks' = tasks
                /\ msgs' = msgs
                /\ UNCHANGED listVars]_vars

\* A scale was confirmed and refused, and the YAML request has produced its
\* error result.
C18_Witness ==
    /\ ~k8sUp
    /\ ~showConfirmDialog
    /\ confirmAction = "scale-up"
    /\ statusMessage = Status("Error: " \o NotInitialized, "", 0)
    /\ tasks = {}
    /\ \E m \in msgs : m.kind = "resourceYAMLLoadedMsg" /\ m.err = NotInitialized

\* C19: if the backend failed to initialize, no backend method is ever
\* invoked on the missing manager (the unguarded SetNamespace calls of the
\* namespace enter path and of the namespace navigation path are never
\* reached, so nothing dereferences nil); the four list panes stay empty,
\* the port-forward registry stays empty and the Confirm dialog is never
\* entered.
C19_NilManagerNeverCalled ==
    ~k8sUp =>
        /\ ~panicked
        /\ lastCalls = {}
        /\ \A l \in ListPanes : l.items = <<>> /\ ~HasSelected(l)
        /\ activePortForwards = {}
        /\ procs = <<>>
        /\ ~showConfirmDialog
        /\ mgrNamespace = "default"

\* With a nil manager every startup load has answered with its error and a
\* key has been handled in the Namespaces category.
C19_Witness ==
    /\ ~k8sUp
    /\ activeCategory = NamespacesCategory
    /\ lastEvent = KeyEvent("normal")
    /\ tasks = {} /\ msgs = {}
    /\ statusMessage.arg = NotInitialized
    /\ ~quit

\* C20: rendering never fails for any terminal size a resize delivers, small
\* ones included: the help-hint truncation never slices at a negative index,
\* the section border repeat counts are never negative, and the help hint
\* shown is no longer than the terminal width when it was truncated.
C20_RenderNeverFails ==
    ready =>
        /\ ~panicked
        /\ HelpTruncated(width) => HelpSliceEnd(width) >= 0
        /\ BottomBorderCount(width) >= 0
        /\ \A t \in SectionTitleLens : RightPad(width, t) >= 0
        /\ HelpTruncated(width) => HelpHintLen(width) <= width

\* The items the backend reported in a list result, in the backend's order.
Reported(m) ==
    CASE m.kind = "namespacesLoadedMsg" -> BackendNamespaces
      [] m.kind = "deploymentsLoadedMsg" -> BackendDeployments(m.ns)
      [] m.kind = "podsLoadedMsg" -> BackendPods(m.ns)
      [] OTHER -> BackendServices(m.ns)

\* What a list result may not touch in any case.
ListResultFrame ==
    <<geomVars, activeCategory, selVars, activeTab, viewVars, k8sUp,
      currentNamespace, dataVars, activePortForwards, dialogVars, showHelp,
      mgrNamespace, procs>>

\* C21: a successful list result replaces the whole item sequence of exactly
\* its own pane with the reported items in backend order and touches no
\* other pane; a failed list result leaves every pane's items and cursor
\* unchanged and only sets the status line to the error text.
C21_ListResultReconciled ==
    [][(lastEvent'.type = "msg" /\ lastEvent'.msg.kind \in ListResultKinds) =>
          LET m == lastEvent'.msg IN
          /\ UNCHANGED ListResultFrame
          /\ lastCmds' = <<>>
          /\ IF m.err # "" THEN
                 /\ UNCHANGED listVars
                 /\ statusMessage'.text = ListErrorText(m.kind)
                 /\ statusMessage'.arg = m.err
             ELSE
                 /\ namespacesList'.items =
                      (IF m.kind = "namespacesLoadedMsg" THEN Reported(m)
                       ELSE namespacesList.items)
                 /\ m.kind # "namespacesLoadedMsg" => UNCHANGED namespacesList
                 /\ deploymentsList'.items =
                      (IF m.kind = "deploymentsLoadedMsg" THEN Reported(m)
                       ELSE deploymentsList.items)
                 /\ m.kind # "deploymentsLoadedMsg" => UNCHANGED deploymentsList
                 /\ podsList'.items =
                      (IF m.kind = "podsLoadedMsg" THEN Reported(m)
                       ELSE podsList.items)
                 /\ m.kind # "podsLoadedMsg" => UNCHANGED podsList
                 /\ servicesList'.items =
                      (IF m.kind = "servicesLoadedMsg" THEN Reported(m)
                       ELSE servicesList.items)
                 /\ m.kind # "servicesLoadedMsg" => UNCHANGED servicesList]_vars

\* The pods of namespace app have replaced the two pods of default.
C21_Witness ==
    /\ lastEvent.type = "msg"
    /\ lastEvent.msg.kind = "podsLoadedMsg"
    /\ lastEvent.msg.err = ""
    /\ lastEvent.msg.ns = "app"
    /\ podsList.items = BackendPods("app")
    /\ deploymentsList.items = BackendDeployments("default")

\* What a logs, env or YAML result may not touch.
ContentResultFrame ==
    <<geomVars, activeCategory, listVars, selVars, activeTab, statsViewport,
      k8sUp, currentNamespace, currentMetrics, activePortForwards,
      statusMessage, dialogVars, showHelp, mgrNamespace, procs>>

\* C22: a failed logs, env or YAML result puts an error text into exactly
\* its destination viewport (logs, env, config) and changes no other
\* viewport, list, dialog or category state; a successful result replaces
\* that viewport's buffer, and a successful logs result also moves the logs
\* scroll position to the bottom.
C22_ContentResultReconciled ==
    [][( /\ lastEvent'.type = "msg"
         /\ lastEvent'.msg.kind \in
              {"podLogsLoadedMsg", "podEnvVarsLoadedMsg", "resourceYAMLLoadedMsg"} )
       => LET m == lastEvent'.msg IN
          /\ UNCHANGED ContentResultFrame
          /\ lastCmds' = <<>>
          /\ m.kind = "podLogsLoadedMsg" =>
                /\ UNCHANGED <<envViewport, configViewport>>
                /\ logsViewport'.content =
                     (IF m.err # "" THEN <<"Error", m.err>>
                      ELSE <<"logs", m.name, m.ns>>)
                /\ m.err = "" =>
                      logsViewport'.yOffset = MaxYOffset(logsViewport'.content)
          /\ m.kind = "podEnvVarsLoadedMsg" =>
                /\ UNCHANGED <<logsViewport, configViewport>>
                /\ envViewport' =
                     (IF m.err # ""
                      THEN <<"Error loading environment variables", m.err>>
                      ELSE renderEnv(<<m.name, m.ns>>))
          /\ m.kind = "resourceYAMLLoadedMsg" =>
                /\ UNCHANGED <<logsViewport, envViewport>>
                /\ configViewport' =
                     (IF m.err # "" THEN <<"Error loading YAML", m.err>>
                      ELSE renderConfig(<<"yaml", m.type, m.name, m.ns>>))]_vars

\* The logs of pod web have arrived and are shown from the bottom, after the
\* YAML load has failed into the config viewport.
C22_Witness ==
    /\ lastEvent.type = "msg"
    /\ lastEvent.msg.kind = "podLogsLoadedMsg"
    /\ lastEvent.msg.err = ""
    /\ logsViewport = Viewport(<<"logs", "web", "default">>, LogLines)
    /\ configViewport = <<"Error loading YAML", "backend error">>

\* The status texts of a mutating action the backend refused.
ActionErrorTexts ==
    {"Error deleting pod", "Error deleting deployment", "Error scaling"}

\* What a failed action leaves alone: everything but the status line and
\* the dialog being closed.
FailedActionFrame ==
    <<geomVars, activeCategory, listVars, selVars, activeTab, viewVars, k8sUp,
      currentNamespace, dataVars, activePortForwards, confirmAction,
      confirmResource, confirmReplicas, showHelp, mgrNamespace, procs>>

\* C23: when a confirmed mutating action fails in the backend the status
\* line shows the error, no list reload is dispatched, and apart from the
\* status line and the dialog closing the state is unchanged; a failed
\* port-forward start likewise only sets the status line and leaves the
\* registry unchanged.
C23_FailedActionChangesNothing ==
    [][/\ ( /\ lastEvent' = KeyEvent("confirm")
            /\ lastCalls' # {}
            /\ statusMessage'.text \in ActionErrorTexts )
          => /\ showConfirmDialog /\ ~showConfirmDialog'
             /\ lastCmds' = <<>>
             /\ tasks' = tasks
             /\ UNCHANGED FailedActionFrame
       /\ ( /\ lastEvent' = KeyEvent("confirm")
            /\ lastCalls' # {}
            /\ statusMessage'.text \notin ActionErrorTexts )
          => /\ statusMessage'.text \in {"Deleted pod", "Deleted deployment", "Scaled"}
             /\ Len(lastCmds') = 1
       /\ ( /\ lastEvent' = KeyEvent("normal")
            /\ \E c \in lastCalls' : c.op = "StartPortForward"
            /\ statusMessage'.text # "Port-forward started" )
          => /\ statusMessage'.text = "Error starting port-forward"
             /\ lastCmds' = <<>>
             /\ tasks' = tasks
             /\ UNCHANGED <<FailedActionFrame, dialogVars>>]_vars

\* A confirmed scale has just been refused by the backend: the dialog is
\* closed and only the status line tells.
C23_Witness ==
    /\ lastEvent = KeyEvent("confirm")
    /\ lastCalls = {Call("ScaleDeployment", "web", 2)}
    /\ statusMessage = Status("Error scaling", "", 0)
    /\ ~showConfirmDialog
    /\ lastCmds = <<>>

\* ------------------------------------------------- the captured action
\* The dialog taken from the moment the timer has fired with a deployment or
\* a pod selected: the reloads of the deployments and pods lists are in
\* flight, so a list may be replaced while the dialog is open.
CaptureInput == Scenario(TRUE, {"d", "+", "-"}, TRUE, ActionOps, FALSE, {})

CaptureInit ==
    /\ input = CaptureInput
    /\ width = 0 /\ height = 0 /\ ready = FALSE
    /\ activeCategory \in {DeploymentsCategory, PodsCategory}
    /\ namespacesList = [items |-> BackendNamespaces, cursor |-> 1]
    /\ \E c \in 0..1 :
          deploymentsList = [items |-> BackendDeployments("default"), cursor |-> c]
    /\ \E c \in 0..1 :
          podsList = [items |-> BackendPods("default"), cursor |-> c]
    /\ servicesList = [items |-> BackendServices("default"), cursor |-> 0]
    /\ selectedResource = SelectedItem(ActiveList).name
    /\ selectedResourceType = ActiveType
    /\ activeTab = (IF activeCategory = PodsCategory THEN LogsTab ELSE ConfigTab)
    /\ k8sUp = TRUE
    /\ currentNamespace = "default"
    /\ currentYAML = <<"yaml", selectedResourceType, selectedResource, "default">>
    /\ configViewport =
         <<"YAML Configuration", selectedResourceType, selectedResource,
           "default">> \o currentYAML
    /\ IF activeCategory = PodsCategory THEN
           /\ logsViewport = Viewport(<<"logs", selectedResource, "default">>, LogLines)
           /\ currentMetrics = <<selectedResource, "default">>
           /\ statsViewport = <<"Resource Metrics", selectedResource, "default">>
           /\ currentEnvVars = <<selectedResource, "default">>
           /\ envViewport = <<"Environment Variables", selectedResource, "default">>
       ELSE
           /\ logsViewport = NewViewport
           /\ currentMetrics = <<>> /\ statsViewport = <<>>
           /\ currentEnvVars = <<>> /\ envViewport = <<>>
    /\ activePortForwards = {}
    /\ statusMessage =
         (IF ActiveList.cursor = 0 THEN Status("K8s connected", "", 0)
          ELSE Status("Selected", selectedResource, 0))
    /\ showConfirmDialog = FALSE
    /\ confirmAction = "" /\ confirmResource = "" /\ confirmReplicas = 0
    /\ showHelp = FALSE
    /\ mgrNamespace = "default"
    /\ procs = <<>>
    /\ tasks = {Cmd("loadDeployments", "", ""), Cmd("loadPods", "", "")}
    /\ msgs = {}
    /\ pendingTicks = 1
    /\ quit = FALSE
    /\ panicked = FALSE
    /\ lastEvent = Event("tick", "", NoMsg)
    /\ logViewer = NewLogViewer
    /\ lastCmds = TickCmds
    /\ lastCalls = {}

CaptureNext ==
    \/ \E k \in Keys : DeleteKey(k)
    \/ \E k \in Keys : ScaleKey(k)
    \/ \E k \in Keys : NoTargetKey(k)
    \/ \E k \in {"y", "n", "z"} : ConfirmDialogKey(k)
    \/ \E t \in tasks : RunTask(t)
    \/ \E m \in msgs : ListLoaded(m)

CaptureSpec == CaptureInit /\ [][CaptureNext]_vars

\* The list whose reload follows the captured action.
CapturedReload ==
    IF confirmAction = "delete-pod" THEN <<Cmd("loadPods", "", "")>>
    ELSE <<Cmd("loadDeployments", "", "")>>

\* The status line after the captured action succeeded.
CapturedStatus ==
    CASE confirmAction = "delete-pod" -> Status("Deleted pod", confirmResource, 0)
      [] confirmAction = "delete-deployment" ->
            Status("Deleted deployment", confirmResource, 0)
      [] OTHER -> Status("Scaled", confirmResource, confirmReplicas)

\* C24: the backend call made on confirm uses exactly the action, resource
\* name and replica count captured when the dialog was entered, even if a
\* list reload replaces the list or moves the cursor while the dialog is
\* open; on success exactly one reload of the matching list is dispatched
\* and the status names the captured resource.
C24_ConfirmUsesCaptured ==
    [][/\ (~showConfirmDialog /\ showConfirmDialog') =>
             /\ HasSelected(ActiveList)
             /\ confirmResource' = SelectedItem(ActiveList).name
             /\ confirmAction' \in
                  (IF activeCategory = PodsCategory THEN {"delete-pod"}
                   ELSE {"delete-deployment", "scale-up", "scale-down"})
             /\ confirmAction' = "scale-up" =>
                   confirmReplicas' = SelectedItem(ActiveList).replicas + 1
             /\ confirmAction' = "scale-down" =>
                   confirmReplicas' = SelectedItem(ActiveList).replicas - 1
       /\ (showConfirmDialog /\ showConfirmDialog') =>
             UNCHANGED <<confirmAction, confirmResource, confirmReplicas>>
       /\ (showConfirmDialog /\ lastEvent' = KeyEvent("confirm") /\ lastCalls' # {}) =>
             /\ lastCalls' = {CapturedCall}
             /\ UNCHANGED <<confirmAction, confirmResource, confirmReplicas>>
             /\ statusMessage'.text \notin ActionErrorTexts =>
                   /\ lastCmds' = CapturedReload
                   /\ statusMessage' = CapturedStatus]_vars

\* The delete of deployment api was confirmed after a reload had moved the
\* cursor to web: the call and the status name api.
C24_Witness ==
    /\ lastEvent = KeyEvent("confirm")
    /\ lastCalls = {Call("DeleteDeployment", "api", 0)}
    /\ statusMessage = Status("Deleted deployment", "api", 0)
    /\ lastCmds = <<Cmd("loadDeployments", "", "")>>
    /\ SelectedItem(deploymentsList).name = "web"

\* ------------------------------------------------------------ the resizes
\* The terminal sizes a resize is checked for: the widths around the points
\* where View changes (12, 184) and every height up to MaxRows.
MaxRows == 32
ResizeWidths == {5, 11, 12, 40, 80, 183, 184}
ResizeHeights == 0..MaxRows

ResizeInit == Init /\ input = ResizeScenario

ResizeNext == \E w \in ResizeWidths, h \in ResizeHeights : WindowSize(w, h)

ResizeSpec == ResizeInit /\ [][ResizeNext]_vars

\* The layout every resize gives: each list pane max(3, (height - 6) / 4 - 2)
\* rows, the left region a third of the width.
LayoutOfResize ==
    /\ ListHeight >= 3
    /\ height >= 6 =>
          ListHeight = (IF ((height - 6) \div 4) - 2 > 3
                        THEN ((height - 6) \div 4) - 2 ELSE 3)
    /\ height < 6 => ListHeight = 3
    /\ 3 * (ListWidth + 4) <= width
    /\ width < 3 * (ListWidth + 4) + 3

\* C25 as stated: for every resize each list pane gets height
\* max(3, ((height - 6) / 4) - 2), at least 3, the left region gets width/3,
\* and all pane and viewport heights are non-negative.
C25_LayoutNonNegative ==
    ready => /\ LayoutOfResize
             /\ ListHeight >= 0
             /\ ViewportHeight >= 0

\* C25, amended: the list panes and the left region are as stated for every
\* resize; the viewports get height - 12 rows, which is non-negative exactly
\* from 12 rows on.
C25_Layout ==
    ready => /\ LayoutOfResize
             /\ ViewportHeight = height - 12
             /\ (ViewportHeight >= 0 <=> height >= 12)

\* A resize to 80 by 32: the list panes are above the floor, with 4 rows.
C25_Witness ==
    /\ lastEvent = Event("resize", "", NoMsg)
    /\ width = 80 /\ height = 32
    /\ ListHeight = 4
    /\ ListWidth = 22
    /\ ViewportHeight = 20

\* ------------------------------------------------------------- the rows
\* Strings are sequences of bytes; a byte outside ASCII is written "x" and
\* its two hexadecimal digits.
Bytes(s) ==
    CASE s = "app" -> <<"a", "p", "p">>
      [] s = "default" -> <<"d", "e", "f", "a", "u", "l", "t">>
      [] s = "web" -> <<"w", "e", "b">>
      [] s = "api" -> <<"a", "p", "i">>
      [] s = "db" -> <<"d", "b">>

Ellipsis == <<".", ".", ".">>
ReadyIcon == <<"xe2", "x97", "x8f">>

\* lipgloss.Width: the number of terminal columns; a whole three-byte rune
\* takes one column, and so does each byte of a broken one.
RECURSIVE Width(_)
Width(s) ==
    IF s = <<>> THEN 0
    ELSE IF Len(s) >= 3 /\ SubSeq(s, 1, 3) = ReadyIcon
         THEN 1 + Width(SubSeq(s, 4, Len(s)))
         ELSE 1 + Width(Tail(s))

\* Title and Description of the items of each list, joined by Render with a
\* space when the description is not empty.  Every deployment and pod of the
\* backend is ready.
RowText(kind, item) ==
    CASE kind = "namespace" -> Bytes(item.name)
      [] kind = "deployment" ->
            Bytes(item.name) \o <<" ">> \o ReadyIcon \o <<" ", "R", "e", "a", "d", "y", ":", " ">>
            \o <<ToString(item.replicas), "/", ToString(item.replicas)>>
            \o <<" ", "|", " ", "U", "p", "-", "t", "o", "-", "d", "a", "t", "e", ":", " ">> \o <<ToString(item.replicas)>>
      [] kind = "pod" ->
            Bytes(item.name) \o <<" ">> \o ReadyIcon \o <<" ", "R", "u", "n", "n", "i", "n", "g", " ", "|", " ", "1", "/", "1">>
      [] OTHER ->
            Bytes(item.name) \o <<" ">> \o <<"C", "l", "u", "s", "t", "e", "r", "I", "P", " ", "|", " ", "1", "0", ".", "0", ".", "0", ".", "1", " ", "|", " ", "8", "0", "/", "T", "C", "P">>

\* compactDelegate.Render: the loop that drops one trailing byte at a time
\* until the text and the ellipsis fit.
RECURSIVE TruncateRow(_, _)
TruncateRow(str, maxWidth) ==
    IF Width(str \o Ellipsis) > maxWidth /\ Len(str) > 0
    THEN TruncateRow(SubSeq(str, 1, Len(str) - 1), maxWidth)
    ELSE str

\* compactDelegate.Render: the row text behind the two-column prefix, in a
\* list listWidth columns wide.
RenderRow(listWidth, str) ==
    LET maxWidth == listWidth - 2 IN
    IF Width(str) > maxWidth /\ maxWidth > 3
    THEN TruncateRow(str, maxWidth) \o Ellipsis
    ELSE str

\* The rows the four lists render.
Rows ==
    {RowText("namespace", namespacesList.items[i]) :
        i \in 1..Len(namespacesList.items)}
    \cup {RowText("deployment", deploymentsList.items[i]) :
        i \in 1..Len(deploymentsList.items)}
    \cup {RowText("pod", podsList.items[i]) : i \in 1..Len(podsList.items)}
    \cup {RowText("service", servicesList.items[i]) :
        i \in 1..Len(servicesList.items)}

\* The lists are loaded and the terminal is resized, at MaxRows rows.
RenderWidths == {12, 27, 30, 40, 80, 120}

RenderNext ==
    \/ \E t \in tasks : RunTask(t)
    \/ \E m \in msgs : ListLoaded(m)
    \/ \E w \in RenderWidths : WindowSize(w, MaxRows)

RenderSpec == ResizeInit /\ [][RenderNext]_vars

EndsInEllipsis(s) ==
    Len(s) >= 3 /\ SubSeq(s, Len(s) - 2, Len(s)) = Ellipsis

\* C26: a row text whose width is at most the pane's inner width (list width
\* minus the 2-character prefix) is rendered unchanged; a wider one is always
\* rendered as a string of exactly the inner width that ends in the
\* ellipsis, for every inner width including widths of 3 or less.
C26_RowTruncation ==
    ready =>
      \A str \in Rows :
         LET inner == ListWidth - 2
             out == RenderRow(ListWidth, str) IN
         /\ Width(str) <= inner => out = str
         /\ Width(str) > inner => Width(out) = inner /\ EndsInEllipsis(out)

\* What holds of the code: the row is cut to the inner width, ellipsis
\* included, only for inner widths above 3.
RowTruncationAboveThree ==
    ready =>
      \A str \in Rows :
         LET inner == ListWidth - 2
             out == RenderRow(ListWidth, str) IN
         /\ Width(str) <= inner => out = str
         /\ (Width(str) > inner /\ inner > 3) =>
               /\ Width(out) = inner
               /\ EndsInEllipsis(out)
               /\ SubSeq(out, 1, Len(out) - 3) = SubSeq(str, 1, Len(out) - 3)
         /\ (Width(str) > inner /\ inner <= 3) => out = str

\* ------------------------------------------------ the log viewer's buffer
\* The longest content kept, in characters, and the texts given to
\* SetContent and AppendContent.
MaxContent == 6
LogTexts == {<<>>, <<"a">>, <<"b", "\n">>}

\* LogViewer.SetContent as a function of the viewer.
WithContent(lv, content) ==
    LET v == LogViewportSetContent(lv.viewport, content) IN
    [lv EXCEPT !.content = content,
               !.viewport = IF lv.autoScroll
                            THEN [v EXCEPT !.yOffset = LineCount(content)]
                            ELSE v]

AppendedAlways(prior, newContent) == prior \o <<"\n">> \o newContent

\* LogViewer.AppendContent: what lv.content becomes.
Appended(prior, newContent) ==
    IF prior # <<>> THEN prior \o <<"\n">> \o newContent ELSE newContent

SetContent(content) ==
    /\ logViewer' = WithContent(logViewer, content)
    /\ UNCHANGED <<appState, runtimeVars, ghostVars>>

AppendContent(newContent) ==
    /\ Len(Appended(logViewer.content, newContent)) <= MaxContent
    /\ logViewer' =
         WithContent(logViewer, Appended(logViewer.content, newContent))
    /\ UNCHANGED <<appState, runtimeVars, ghostVars>>

Clear ==
    /\ logViewer' =
         [logViewer EXCEPT !.content = <<>>,
                           !.viewport =
                              LogViewportSetContent(logViewer.viewport, <<>>)]
    /\ UNCHANGED <<appState, runtimeVars, ghostVars>>

ToggleAutoScroll ==
    /\ logViewer' =
         [logViewer EXCEPT !.autoScroll = ~logViewer.autoScroll,
                           !.viewport.yOffset =
                              IF ~logViewer.autoScroll
                              THEN LineCount(logViewer.viewport.content)
                              ELSE @]
    /\ UNCHANGED <<appState, runtimeVars, ghostVars>>

\* LogViewer.GetContent.
GetContent == logViewer.content

LogViewerNext ==
    \/ \E c \in LogTexts : SetContent(c)
    \/ \E n \in LogTexts : AppendContent(n)
    \/ Clear
    \/ ToggleAutoScroll

LogViewerSpec == ResizeInit /\ [][LogViewerNext]_vars

IsPrefix(p, s) == Len(p) <= Len(s) /\ SubSeq(s, 1, Len(p)) = p

\* C27 as stated: after SetContent(c), GetContent returns exactly c; after
\* AppendContent(n) on prior content p, GetContent returns p followed by a
\* newline separator followed by n, so that p is a prefix of the new content;
\* after Clear, GetContent returns the empty string.
C27_BufferLaws ==
    [][/\ \A c \in LogTexts : SetContent(c) => GetContent' = c
       /\ \A n \in LogTexts :
             AppendContent(n) =>
                /\ GetContent' = GetContent \o <<"\n">> \o n
                /\ IsPrefix(GetContent, GetContent')
       /\ Clear => GetContent' = <<>>]_vars

\* C27, amended: AppendContent puts the newline separator only after
\* non-empty prior content; on empty content it gives n alone.
C27_BufferLawsSeparator ==
    [][/\ \A c \in LogTexts : SetContent(c) => GetContent' = c
       /\ \A n \in LogTexts :
             AppendContent(n) =>
                /\ GetContent # <<>> =>
                      GetContent' = GetContent \o <<"\n">> \o n
                /\ GetContent = <<>> => GetContent' = n
                /\ IsPrefix(GetContent, GetContent')
                /\ logViewer'.viewport.content = GetContent'
       /\ Clear => GetContent' = <<>>]_vars

\* A third line has been appended after two.
C27_Witness ==
    /\ GetContent = <<"a", "\n", "b", "\n", "\n", "a">>
    /\ logViewer.viewport.content = GetContent
    /\ logViewer.viewport.yOffset = 4

\* C28: pressing 3 in normal mode with a non-empty pods list makes Pods the
\* active category, selects the pod under the Pods cursor (the first pod
\* when the list was just loaded) with kind pod, makes Logs the active tab
\* and dispatches exactly the four loads logs, metrics, env and YAML for that
\* pod; with an empty pods list it only changes the active category and
\* dispatches nothing.
C28_JumpToPods ==
    [][(lastEvent' = KeyEvent("normal") /\ JumpKey("3")) =>
          /\ activeCategory' = PodsCategory
          /\ UNCHANGED <<geomVars, listVars, viewVars, dataVars, k8sUp,
                         currentNamespace, activePortForwards, statusMessage,
                         dialogVars, showHelp, mgrNamespace, procs>>
          /\ lastCalls' = {}
          /\ IF podsList.items # <<>> THEN
                LET pod == podsList.items[podsList.cursor + 1].name IN
                /\ selectedResource' = pod
                /\ selectedResourceType' = "pod"
                /\ activeTab' = LogsTab
                /\ Len(lastCmds') = 4
                /\ Range(lastCmds') =
                      {Cmd(kind, pod, "pod") :
                          kind \in {"loadPodLogs", "loadPodMetrics",
                                    "loadPodEnvVars", "loadResourceYAML"}}
                /\ tasks' = tasks \cup Range(lastCmds')
             ELSE
                /\ UNCHANGED <<selVars, activeTab, tasks>>
                /\ lastCmds' = <<>>]_vars

\* 3 was pressed on the freshly loaded pods of namespace default: the first
\* pod, web, is selected and its four loads are started.
C28_Witness ==
    /\ lastEvent = KeyEvent("normal")
    /\ activeCategory = PodsCategory
    /\ podsList = [items |-> BackendPods("default"), cursor |-> 0]
    /\ selectedResource = "web" /\ selectedResourceType = "pod"
    /\ activeTab = LogsTab
    /\ lastCmds = PodLoads("web")
    /\ tasks = Range(PodLoads("web"))

\* 3 was pressed while the pods list was empty.
JumpToEmptyPods ==
    /\ lastEvent = KeyEvent("normal")
    /\ activeCategory = PodsCategory
    /\ podsList.items = <<>>
    /\ lastCmds = <<>>
    /\ selectedResource = ""

\* The help hint after a resize to 40 columns: cut to 33 bytes and the
\* ellipsis, 36 bytes in all.
HelpHintAtForty ==
    /\ HelpTruncated(width)
    /\ HelpSliceEnd(width) = 33
    /\ HelpHintLen(width) = HelpSliceEnd(width) + 3
    /\ HelpHintLen(width) <= width

\* C29 as stated: after a resize to width 40, the per-section list height
\* is 3 and the help-hint line is truncated to fit the width and ends in a
\* trailing ellipsis.
C29_NarrowResize ==
    (ready /\ width = 40) => ListHeight = 3 /\ HelpHintAtForty

\* C29, amended: after a resize to width 40 the help hint is truncated to
\* fit the width, ellipsis included; the per-section list height is 3
\* exactly when the terminal has fewer than 30 rows, whatever the width.
C29_NarrowResizeByRows ==
    /\ (ready /\ width = 40) => ~panicked /\ HelpHintAtForty
    /\ ready => (ListHeight = 3 <=> height < 30)

\* A resize to 40 by 24: list panes of 3 rows and a help hint of 36 bytes.
C29_Witness ==
    /\ lastEvent = Event("resize", "", NoMsg)
    /\ width = 40 /\ height = 24
    /\ ListHeight = 3
    /\ HelpHintLen(width) = 36
    /\ ~panicked

\* C30: a failed metrics load sets the stats viewport to the 'Metrics
\* unavailable' placeholder naming the currently selected resource, clears
\* the stored metrics, and leaves the status line, the lists and every other
\* viewport unchanged.
C30_MetricsUnavailable ==
    [][( /\ lastEvent'.type = "msg"
         /\ lastEvent'.msg.kind = "podMetricsLoadedMsg"
         /\ lastEvent'.msg.err # ""
         /\ MetricsLoaded(lastEvent'.msg)) =>
          /\ statsViewport' = <<"Metrics unavailable", selectedResource>>
          /\ currentMetrics' = <<>>
          /\ UNCHANGED <<statusMessage, listVars, logsViewport, envViewport,
                         configViewport, selVars, activeCategory, activeTab,
                         dialogVars, showHelp, currentEnvVars, currentYAML,
                         activePortForwards, procs>>
          /\ lastCmds' = <<>>
          /\ lastCalls' = {}
          /\ ~quit' /\ ~panicked']_vars

\* The metrics of pod web could not be had: the stats tab says so, the
\* status line still shows what it showed.
C30_Witness ==
    /\ lastEvent.type = "msg"
    /\ lastEvent.msg.kind = "podMetricsLoadedMsg"
    /\ lastEvent.msg.err # ""
    /\ selectedResource = "web"
    /\ statsViewport = <<"Metrics unavailable", "web">>
    /\ currentMetrics = <<>>
    /\ statusMessage = Status("K8s connected", "", 0)

\* The category a direct-jump key names and the tab a tab key names.
KthCategory(k) ==
    CASE k = "1" -> 0 [] k = "2" -> 1 [] k = "3" -> 2 [] OTHER -> 3
NamedTab(k) ==
    CASE k = "l" -> 0 [] k = "s" -> 1 [] k = "e" -> 2 [] k = "c" -> 3
      [] k = "t" -> 4 [] OTHER -> 5

EnterLoads(name) ==
    IF activeCategory = PodsCategory
    THEN <<Cmd("loadPodLogs", name, "pod"), Cmd("loadPodMetrics", name, "pod"),
           Cmd("loadPodEnvVars", name, "pod"),
           Cmd("loadResourceYAML", name, "pod")>>
    ELSE <<Cmd("loadResourceYAML", name, ActiveType)>>

\* C32: pressing enter in normal mode with an item under the cursor of the
\* active category selects that item in every category: in Deployments, Pods
\* and Services the selection becomes that item (name and kind) and that
\* category's loads are dispatched (YAML for Deployments and Services; logs,
\* metrics, env and YAML for Pods); in Namespaces the active namespace is
\* switched.
C32_EnterSelects ==
    [][( /\ lastEvent' = KeyEvent("normal")
         /\ HasSelected(ActiveList)
         /\ \/ EnterNamespaceKey("enter")
            \/ EnterResourceKey("enter")
            \/ NoTargetKey("enter")) =>
          LET name == SelectedItem(ActiveList).name IN
          IF activeCategory = NamespacesCategory
          THEN currentNamespace' = name /\ mgrNamespace' = name
          ELSE /\ selectedResource' = name
               /\ selectedResourceType' = ActiveType
               /\ lastCmds' = EnterLoads(name)]_vars

\* What holds of the code: enter selects in Namespaces, Deployments and Pods,
\* and does nothing at all in Services.
EnterSelectsButServices ==
    [][( /\ lastEvent' = KeyEvent("normal")
         /\ HasSelected(ActiveList)
         /\ \/ EnterNamespaceKey("enter")
            \/ EnterResourceKey("enter")
            \/ NoTargetKey("enter")) =>
          LET name == SelectedItem(ActiveList).name IN
          CASE activeCategory = NamespacesCategory ->
                  currentNamespace' = name /\ mgrNamespace' = name
            [] activeCategory = ServicesCategory ->
                  UNCHANGED appState /\ lastCmds' = <<>>
            [] OTHER ->
                  /\ selectedResource' = name
                  /\ selectedResourceType' = ActiveType
                  /\ lastCmds' = EnterLoads(name)]_vars

\* Enter was pressed on a pod.
EnterOnPod ==
    /\ lastEvent = KeyEvent("normal")
    /\ statusMessage = Status("Selected", "web", 0)
    /\ lastCmds = PodLoads("web")

\* The Pods pane is active with a pod under its cursor.
PodUnderCursor == activeCategory = PodsCategory /\ HasSelected(podsList)

\* The Confirm dialog has been opened for the deletion of the pod that was
\* under the cursor.
StartsPodDeletion ==
    /\ showConfirmDialog'
    /\ confirmAction' = "delete-pod"
    /\ confirmResource' = SelectedItem(podsList).name

ExecTabOnPods ==
    /\ lastEvent = KeyEvent("normal")
    /\ activeCategory = PodsCategory
    /\ HasSelected(podsList)
    /\ activeTab = ExecTab
    /\ ~showConfirmDialog

\* ------------------------------------------------ the namespace switch
\* The switch of the namespace with loads in flight: a pod of namespace
\* default is selected, the Namespaces pane is active with app under its
\* cursor, the timer runs, and one load dispatched under default is still
\* pending or its result not yet delivered.
SwitchInput == Scenario(TRUE, {"enter"}, TRUE, {}, TRUE, {})

InFlightAtSwitch(pod) ==
    {[tasks |-> {Cmd("loadPodLogs", pod, "pod")}, msgs |-> {}],
     [tasks |-> {Cmd("loadPods", "", "")}, msgs |-> {}],
     [tasks |-> {},
      msgs |-> {Msg("podsLoadedMsg", "", "default", "", "")}],
     [tasks |-> {},
      msgs |-> {Msg("deploymentsLoadedMsg", "", "default", "", "")}]}

SwitchInit ==
    /\ input = SwitchInput
    /\ width = 0 /\ height = 0 /\ ready = FALSE
    /\ activeCategory = NamespacesCategory
    /\ namespacesList = [items |-> BackendNamespaces, cursor |-> 0]
    /\ deploymentsList = [items |-> BackendDeployments("default"), cursor |-> 0]
    /\ \E c \in 0..1 :
          podsList = [items |-> BackendPods("default"), cursor |-> c]
    /\ servicesList = [items |-> BackendServices("default"), cursor |-> 0]
    /\ selectedResource = SelectedItem(podsList).name
    /\ selectedResourceType = "pod"
    /\ activeTab = LogsTab
    /\ k8sUp = TRUE
    /\ currentNamespace = "default"
    /\ mgrNamespace = "default"
    /\ \E f \in InFlightAtSwitch(selectedResource) :
          /\ tasks = f.tasks
          /\ msgs = f.msgs
          /\ logsViewport =
               (IF f.tasks \cap Range(PodLoads(selectedResource)) # {}
                THEN NewViewport
                ELSE Viewport(<<"logs", selectedResource, "default">>, LogLines))
    /\ currentMetrics = <<selectedResource, "default">>
    /\ statsViewport = <<"Resource Metrics", selectedResource, "default">>
    /\ currentEnvVars = <<selectedResource, "default">>
    /\ envViewport = <<"Environment Variables", selectedResource, "default">>
    /\ currentYAML = <<"yaml", "pod", selectedResource, "default">>
    /\ configViewport =
         <<"YAML Configuration", "pod", selectedResource, "default">>
            \o currentYAML
    /\ activePortForwards = {}
    /\ statusMessage = Status("K8s connected", "", 0)
    /\ showConfirmDialog = FALSE
    /\ confirmAction = "" /\ confirmResource = "" /\ confirmReplicas = 0
    /\ showHelp = FALSE
    /\ procs = <<>>
    /\ pendingTicks = 1
    /\ quit = FALSE
    /\ panicked = FALSE
    /\ lastEvent = KeyEvent("normal")
    /\ logViewer = NewLogViewer
    /\ lastCmds = <<>>
    /\ lastCalls = {}

SwitchNext ==
    \/ EnterNamespaceKey("enter")
    \/ \E t \in tasks : RunTask(t)
    \/ \E m \in msgs : ListLoaded(m)
    \/ \E m \in msgs : LogsLoaded(m)
    \/ Tick

SwitchSpec == SwitchInit /\ [][SwitchNext]_vars

\* C34: every dispatched load is bound to the context active at dispatch
\* time: its backend call uses the resource name, kind and namespace that
\* were current when it was dispatched, even if the namespace is switched
\* between the dispatch and the moment the task runs.  Here the load of the
\* logs of the selected pod was dispatched under namespace default.
C34_LoadBoundToDispatch ==
    \A m \in msgs :
       (m.kind = "podLogsLoadedMsg" /\ m.err = "") =>
          m.name = selectedResource /\ m.type = "pod" /\ m.ns = "default"

\* What holds of the code: the load keeps the resource name and kind of its
\* dispatch, and its call uses the namespace the Manager has when it runs.
LoadBoundToNameOnly ==
    [][\A t \in tasks :
          (lastEvent' = Event("run", "", NoMsg) /\ RunTask(t)) =>
             \E m \in msgs' :
                /\ m.name = t.name /\ m.type = t.type
                /\ m.ns = CallNamespace(t.kind)]_vars

\* The logs of pod web, asked for under default, were fetched from app.
LogsFromOtherNamespace ==
    /\ currentNamespace = "app"
    /\ Msg("podLogsLoadedMsg", "", "app", "web", "pod") \in msgs

\* C35: a resize changes only the terminal dimensions and the pane geometry:
\* the text of the four tab buffers (logs, stats, env, config) is the same
\* after the resize as before it, as are the lists, cursors, selection,
\* category, tab and dialog state.
C35_ResizeKeepsContent ==
    [][lastEvent' = Event("resize", "", NoMsg) =>
          /\ logsViewport'.content = logsViewport.content
          /\ UNCHANGED <<statsViewport, envViewport, configViewport>>
          /\ UNCHANGED <<listVars, selVars, activeCategory, activeTab,
                         dialogVars, showHelp>>]_vars

\* What holds of the code: a resize replaces the four viewports by new, empty
\* ones and keeps the lists, the selection and the loaded data.
ResizeEmptiesViewports ==
    [][lastEvent' = Event("resize", "", NoMsg) =>
          /\ logsViewport' = NewViewport
          /\ statsViewport' = <<>> /\ envViewport' = <<>>
          /\ configViewport' = <<>>
          /\ UNCHANGED <<listVars, selVars, activeCategory, activeTab,
                         dialogVars, showHelp, dataVars, statusMessage,
                         currentNamespace>>]_vars

\* The logs of the selected pod web were on screen and a resize emptied the
\* Logs tab.
LogsLostByResize ==
    /\ lastEvent = Event("resize", "", NoMsg)
    /\ selectedResource = "web" /\ selectedResourceType = "pod"
    /\ currentYAML # <<>>
    /\ logsViewport = NewViewport
    /\ configViewport = <<>>
    /\ tasks = {} /\ msgs = {}

\* The key z, which is bound to no action and is no navigation key of the
\* list, is handled and the cursor of the active list stays where it was.
UnboundKeyCursorStays ==
    /\ lastEvent' = KeyEvent("normal")
    /\ ~panicked'
    /\ OtherKeyNamespaces("z") \/ OtherKeyResources("z")
    /\ UNCHANGED listVars

\* C36: in normal mode a key press that is not a bound action and does not
\* move the cursor of the active list leaves the active namespace, the
\* selection and the active tab unchanged and dispatches no load (for example
\* an unbound key pressed at startup in the Namespaces category, or in the
\* Pods category reached via tab).
C36_UnboundKeyChangesNothing ==
    [][UnboundKeyCursorStays =>
          /\ UNCHANGED <<currentNamespace, mgrNamespace, selVars, activeTab>>
          /\ \A i \in 1..Len(lastCmds') : lastCmds'[i].kind \notin LoadKinds
          /\ tasks' = tasks]_vars

\* What holds of the code: such a key changes nothing only when the item
\* under the cursor already is the current namespace, or has the selected
\* resource's name.
UnboundKeyOnCurrentItem ==
    [][( /\ UnboundKeyCursorStays
         /\ \/ ~HasSelected(ActiveList)
            \/ SelectedItem(ActiveList).name =
                  (IF activeCategory = NamespacesCategory THEN currentNamespace
                   ELSE selectedResource)) =>
          /\ UNCHANGED <<currentNamespace, mgrNamespace, selVars, activeTab>>
          /\ \A i \in 1..Len(lastCmds') : lastCmds'[i].kind \notin LoadKinds
          /\ tasks' = tasks]_vars

\* An unbound key at startup has switched the namespace to app, the first
\* namespace of the list.
UnboundKeySwitchedNamespace ==
    /\ lastEvent = KeyEvent("normal")
    /\ activeCategory = NamespacesCategory
    /\ namespacesList.cursor = 0
    /\ currentNamespace = "app"
    /\ statusMessage = Status("Switched to namespace", "app", 0)
    /\ lastCmds # <<>>

\* C37: in every reachable state where the Pods pane is the active category,
\* its list is non-empty and the selection's kind is pod, the selection's
\* name is the name of the pod under the Pods cursor, so that the target d
\* captures for deletion and the pod the tab content describes are the same
\* pod; also right after a pods list reload.
C37_SelectionIsCursorPod ==
    ( /\ activeCategory = PodsCategory
      /\ podsList.items # <<>>
      /\ selectedResourceType = "pod") =>
        selectedResource = podsList.items[podsList.cursor + 1].name

\* What holds of the code: the selection is the pod under the cursor right
\* after a step that selected a pod.
SelectionFollowsSelect ==
    [][( /\ lastEvent' = KeyEvent("normal")
         /\ activeCategory' = PodsCategory
         /\ podsList'.items # <<>>
         /\ selVars' # selVars
         /\ selectedResourceType' = "pod") =>
          selectedResource' = podsList'.items[podsList'.cursor + 1].name]_vars

\* Pod db of namespace default is still the selection while the Pods pane
\* shows the pods of namespace app with web under the cursor.
SelectionLeftBehind ==
    /\ activeCategory = PodsCategory
    /\ currentNamespace = "app"
    /\ podsList = [items |-> BackendPods("app"), cursor |-> 0]
    /\ selectedResource = "db" /\ selectedResourceType = "pod"

\* C38: whenever the backend is initialized, the namespace the status bar
\* shows is the namespace the manager uses for its calls: both start as
\* "default", and every change of one comes in the same step with the same
\* change of the other.
C38_NamespaceInSync ==
    /\ (currentNamespace = "default" /\ mgrNamespace = "default")
    /\ [](k8sUp => currentNamespace = mgrNamespace)
    /\ [][(currentNamespace' # currentNamespace
             \/ mgrNamespace' # mgrNamespace) =>
            /\ k8sUp
            /\ currentNamespace' # currentNamespace
            /\ mgrNamespace' # mgrNamespace
            /\ mgrNamespace' = currentNamespace'
            /\ lastCalls' = {Call("SetNamespace", currentNamespace', 0)}]_vars

\* The namespace was switched to app and a pods load answered from it.
C38_Witness ==
    /\ k8sUp
    /\ currentNamespace = "app" /\ mgrNamespace = "app"
    /\ lastEvent = MsgEvent(Msg("podsLoadedMsg", "", "app", "", ""))
    /\ podsList.items = BackendPods("app")

\* ------------------------------------------------- events under an overlay
\* The Confirm dialog and the Help screen opened and closed at any moment
\* while loads are in flight, the timer runs and the terminal is resized.
ModalInput == Scenario(TRUE, {"3", "d", "?", "n"}, TRUE, {}, TRUE, {<<80, 24>>})

ModalInit ==
    /\ input = ModalInput
    /\ NewModel
    /\ tasks = LoadsOf(InitCmds)
    /\ msgs = {}
    /\ pendingTicks = TicksOf(InitCmds)
    /\ quit = FALSE
    /\ panicked = FALSE
    /\ lastEvent = Event("init", "", NoMsg)
    /\ logViewer = NewLogViewer
    /\ lastCmds = InitCmds
    /\ lastCalls = {}

ModalNext ==
    \/ JumpKey("3")
    \/ DeleteKey("d")
    \/ HelpToggleKey("?")
    \/ ConfirmDialogKey("n")
    \/ HelpKey("?")
    \/ \E t \in tasks : RunTask(t)
    \/ \E m \in msgs : ListLoaded(m)
    \/ \E m \in msgs : LogsLoaded(m)
    \/ \E m \in msgs : MetricsLoaded(m)
    \/ \E m \in msgs : EnvVarsLoaded(m)
    \/ \E m \in msgs : YAMLLoaded(m)
    \/ Tick
    \/ \E s \in input.sizes : WindowSize(s[1], s[2])

ModalSpec == ModalInit /\ [][ModalNext]_vars

\* An overlay is shown.
OverlayShown == showConfirmDialog \/ showHelp

\* The step handled a tick as ever: the three list reloads and the next
\* tick are returned and the Model is as it was.
TickProcessed ==
    lastEvent'.type = "tick" =>
        /\ lastCmds' = TickCmds
        /\ pendingTicks' = pendingTicks
        /\ LoadsOf(TickCmds) \subseteq tasks'
        /\ UNCHANGED appState

\* The step handled a successful load result as ever: the list or the
\* viewport of its kind holds what the result carried.
ResultProcessed ==
    (lastEvent'.type = "msg" /\ lastEvent'.msg.err = "") =>
        LET m == lastEvent'.msg IN
        /\ m.kind = "namespacesLoadedMsg" =>
              namespacesList' = [items |-> BackendNamespaces, cursor |-> 0]
        /\ m.kind = "deploymentsLoadedMsg" =>
              deploymentsList' = [items |-> BackendDeployments(m.ns), cursor |-> 0]
        /\ m.kind = "podsLoadedMsg" =>
              podsList' = [items |-> BackendPods(m.ns), cursor |-> 0]
        /\ m.kind = "servicesLoadedMsg" =>
              servicesList' = [items |-> BackendServices(m.ns), cursor |-> 0]
        /\ m.kind = "podLogsLoadedMsg" =>
              logsViewport'.content = <<"logs", m.name, m.ns>>
        /\ m.kind = "podMetricsLoadedMsg" =>
              statsViewport' = <<"Resource Metrics", m.name, m.ns>>
        /\ m.kind = "podEnvVarsLoadedMsg" =>
              envViewport' = <<"Environment Variables", m.name, m.ns>>
        /\ m.kind = "resourceYAMLLoadedMsg" =>
              currentYAML' = <<"yaml", m.type, m.name, m.ns>>
        /\ m \notin msgs'

\* The step handled a resize as ever: the Model holds the new size.
ResizeProcessed ==
    lastEvent'.type = "resize" =>
        /\ <<width', height'>> \in input.sizes
        /\ ready'

\* C39: while the Confirm dialog or the Help screen is shown, events other
\* than keys are processed as ever (a tick dispatches the list reloads and
\* the next tick, load results update lists and viewports, a resize updates
\* the geometry), and none of them changes the dialog and help flags or the
\* captured action, resource name and replica count.
C39_EventsUnderOverlay ==
    [][(OverlayShown /\ lastEvent'.type # "key") =>
          /\ TickProcessed
          /\ ResultProcessed
          /\ ResizeProcessed
          /\ UNCHANGED <<dialogVars, showHelp>>]_vars

\* Under the Confirm dialog for pod web a tick was handled, under it the
\* pods reload of that tick arrived, and the terminal was resized.
C39_Witness ==
    /\ showConfirmDialog /\ confirmResource = "web"
    /\ lastEvent = MsgEvent(Msg("podsLoadedMsg", "", "default", "", ""))
    /\ pendingTicks = 1
    /\ Cmd("loadDeployments", "", "") \in tasks
    /\ ready /\ width = 80
    /\ logsViewport.content = <<>>

\* Under the Help screen a tick was handled.
TickUnderHelp ==
    /\ showHelp
    /\ lastEvent.type = "tick"

\* Under the Help screen the terminal was resized.
ResizeUnderHelp ==
    /\ showHelp
    /\ lastEvent.type = "resize"

\* ------------------------------------------- the switch, fairly scheduled
\* The goroutine of every dispatched list load runs to its end, the runtime
\* delivers every queued list result to Update, and the timer fires.
ListLoadTasks == LoadsOf(TickCmds)
ListResults ==
    {Msg(k, "", ns, "", "") :
        k \in {"deploymentsLoadedMsg", "podsLoadedMsg", "servicesLoadedMsg"},
        ns \in {"default", "app"}}

SwitchFairSpec ==
    /\ SwitchSpec
    /\ \A t \in ListLoadTasks : WF_vars(RunTask(t))
    /\ \A m \in ListResults : WF_vars(ListLoaded(m))
    /\ WF_vars(Tick)

\* The three resource panes hold the lists of namespace ns.
PanesHold(ns) ==
    /\ deploymentsList.items = BackendDeployments(ns)
    /\ podsList.items = BackendPods(ns)
    /\ servicesList.items = BackendServices(ns)

\* C40: once the namespace is switched to app, with no further key and a
\* backend that keeps answering, the deployments, pods and services panes
\* eventually hold the lists of app and hold them from then on, also when
\* results of loads started before the switch arrive after it.
C40_EventuallyConsistent ==
    [](currentNamespace = "app" => <>[]PanesHold("app"))

\* After the switch a tick has reloaded the lists, every result is in and
\* the panes hold the lists of app.
C40_Witness ==
    /\ currentNamespace = "app"
    /\ PanesHold("app")
    /\ lastEvent.type = "msg" /\ lastEvent.msg.ns = "app"
    /\ tasks = {} /\ msgs = {}
    /\ statusMessage = Status("Switched to namespace", "app", 0)

\* A result of a load that ran before the switch has arrived after it: the
\* Pods pane shows the pods of default under namespace app.
StaleListAfterSwitch ==
    /\ currentNamespace = "app"
    /\ lastEvent = MsgEvent(Msg("podsLoadedMsg", "", "default", "", ""))
    /\ podsList.items = BackendPods("default")

====
